---- MODULE Spec2Model ----
(***************************************************************************)
(* Inventory synchronisation of the apparel registry (catalog/models.py).  *)
(* The database tables are sets of rows; every model method is a pure      *)
(* operator from a database value to a database value, and every action   *)
(* applies one whole handler to the tables.                                *)
(***************************************************************************)
EXTENDS Integers, Sequences, FiniteSets, TLC

VARIABLES collections, templates, items, users, units, inv, nextId, procs, issued, resp,
          regTokens, recTokens, passwords, clock

\* the tables, the next unit key, and the requests in progress
vars == <<collections, templates, items, users, units, inv, nextId, procs, issued, resp,
          regTokens, recTokens, passwords, clock>>

\* the tables and the clock of the accounts application
accounts == <<regTokens, recTokens, passwords, clock>>

(* ----------------------------- bounds --------------------------------- *)
\* largest quantity an operator enters in a size template
MaxQty == 3
\* number of primary keys the unit table hands out
MaxUnits == 3
\* number of distinct values the access-code generator can return
NumCodes == 3

(* ---------------------------- universe -------------------------------- *)
\* SizeChoices, restricted to two of its six members
Sizes == {"L", "M"}
\* CollectionSizeTemplate.Meta.ordering = ("collection", "size")
SizeOrder == <<"L", "M">>
CollectionIds == {"c1", "c2"}
ItemIds == {"i1", "i2"}
UserIds == {"ua", "ub"}
Codes == 1..NumCodes
Times == {"t1", "t2"}
\* the null owner reference, the null timestamp
NoOwner == "null"
NoTime == "null"

(* ------------------------- queries on tables -------------------------- *)
\* self.units.filter(size=size)
UnitsOf(U, i, s) == {u \in U : u.item = i /\ u.size = s}
\* .filter(owner__isnull=True)
Unowned(S) == {u \in S : u.owner = NoOwner}
Owned(S) == {u \in S : u.owner # NoOwner}
ItemUnits(U, i) == {u \in U : u.item = i}
\* self.size_inventories.filter(size=size)
RowsOf(V, i, s) == {r \in V : r.item = i /\ r.size = s}
\* size_inventories.get(size=s), unique by (item, size)
Row(V, i, s) == CHOOSE r \in RowsOf(V, i, s) : TRUE
\* collection.size_templates.all() as the dict size -> quantity
TemplateSizes(T, c) == {t.size : t \in {x \in T : x.collection = c}}
TemplateQty(T, c, s) == (CHOOSE t \in T : t.collection = c /\ t.size = s).quantity
ItemExists(I, i) == \E r \in I : r.id = i
\* ApparelUnit.objects.get(pk=pk)
Unit(U, pk) == CHOOSE u \in U : u.id = pk
Stored(U, pk) == \E u \in U : u.id = pk
CollectionOf(I, i) == (CHOOSE r \in I : r.id = i).collection
Min(a, b) == IF a < b THEN a ELSE b

(* ------------------- ApparelItemViewSet.lookup ------------------------ *)
\* get_object_or_404(ApparelUnit, access_code=access_code) and the fields of
\* the serialized unit the test reads; get() raises on more than one row
LookupAnyUnit(U, code) ==
    IF U = {} THEN [status |-> 404]
    ELSE LET u == CHOOSE x \in U : \A y \in U : x.id <= y.id
         IN  [status |-> 200, id |-> u.id, access_code |-> u.code, item |-> u.item]

\* accounts/urls.py: the keyword of the route named profile-detail,
\* profiles/<slug:profile_slug>/
ProfileRouteKwargs == {"profile_slug"}

\* User.profile_url: reverse("accounts:profile-detail", kwargs={"slug": ...})
\* resolves only if the route takes that keyword, else NoReverseMatch
ProfileUrlOk == "slug" \in ProfileRouteKwargs

\* serializer.data of the unit: OwnerSerializer.get_profile_url reads
\* owner.profile_url when the unit has an owner
Lookup(U, code) ==
    LET hits == {u \in U : u.code = code}
    IN  IF hits = {} THEN [status |-> 404]
        ELSE IF Cardinality(hits) > 1 THEN [status |-> 500]
        ELSE LET u == CHOOSE x \in hits : TRUE
             IN  IF u.owner # NoOwner /\ ~ProfileUrlOk THEN [status |-> 500]
                 ELSE [status |-> 200, id |-> u.id, access_code |-> u.code,
                       item |-> u.item]

\* ApparelItem.total_units / remaining_units
TotalUnits(U, i) == Cardinality(ItemUnits(U, i))
RemainingUnits(U, i) == Cardinality(Unowned(ItemUnits(U, i)))

(* ------------- Collection.total_units / remaining_units ---------------- *)
\* self.apparel_items.all()
CollectionItems(I, c) == {r.id : r \in {x \in I : x.collection = c}}

RECURSIVE SumTotalUnits(_, _)
\* sum(item.total_units for item in items)
SumTotalUnits(U, ids) ==
    IF ids = {} THEN 0
    ELSE LET i == CHOOSE x \in ids : TRUE
         IN  TotalUnits(U, i) + SumTotalUnits(U, ids \ {i})

RECURSIVE SumRemainingUnits(_, _)
\* sum(item.remaining_units for item in items)
SumRemainingUnits(U, ids) ==
    IF ids = {} THEN 0
    ELSE LET i == CHOOSE x \in ids : TRUE
         IN  RemainingUnits(U, i) + SumRemainingUnits(U, ids \ {i})

\* the total that counts the first item only
CollectionTotalFirstItem(I, U, c) ==
    IF CollectionItems(I, c) = {} THEN 0
    ELSE Cardinality({u \in U : u.item = CHOOSE x \in CollectionItems(I, c) : TRUE})

CollectionTotalUnits(I, U, c) == SumTotalUnits(U, CollectionItems(I, c))
CollectionRemainingUnits(I, U, c) == SumRemainingUnits(U, CollectionItems(I, c))

(* ------------------- ApparelUnit.owner, perform_update ----------------- *)
\* a request without a logged-in user; a payload without owner_id
Anonymous == "anonymous"
Absent == "absent"

\* perform_update: serializer.save(owner=request.user) when the user is
\* authenticated and the validated data has no owner, serializer.save()
\* otherwise (the owner of the payload if it has one, else the stored one)
PerformUpdateOwner(user, data_owner, current) ==
    IF user # Anonymous /\ data_owner = Absent THEN user
    ELSE IF data_owner # Absent THEN data_owner
    ELSE current

\* the deletion of a user that takes the user's units along
OwnerCascade(U, user) == {u \in U : u.owner # user}

\* on_delete=SET_NULL: the owner column of the user's units is set to NULL by
\* the deletion collector, no save() runs
OwnerSetNull(U, user) ==
    {IF u.owner = user THEN [u EXCEPT !.owner = NoOwner] ELSE u : u \in U}

(* ------------------------- on_delete=CASCADE --------------------------- *)
\* the deletion of items that leaves their Size Inventory rows
CascadeRowsKept(V, ids) == V

\* ApparelUnit.item, on_delete=CASCADE: the units of the deleted items go
CascadeUnits(U, ids) == {u \in U : u.item \notin ids}

\* ApparelItemSizeInventory.item, on_delete=CASCADE
CascadeRows(V, ids) == {r \in V : r.item \notin ids}

\* ApparelItem.collection, on_delete=CASCADE
CascadeItems(I, c) == {r \in I : r.collection # c}

\* CollectionSizeTemplate.collection, on_delete=CASCADE
CascadeTemplates(T, c) == {x \in T : x.collection # c}

(* --------------------------- access codes ----------------------------- *)
\* generate_access_code: the k-th value the generator returns to a handler.
\* Each call of secrets.token_hex returns a value that depends on no other
\* call; the random source is the input seed, the sequence of the values it
\* returns to the handler, any code at any place.
GenerateAccessCode(seed, k) == seed[k]

\* the draws that return the codes after start one by one, start + 1 first
ConsecutiveDraws(start) ==
    [k \in 1..(MaxQty + MaxUnits) |-> ((start + k - 1) % NumCodes) + 1]

\* the access_code column without its unique constraint
CodeNeverTaken(U, code) == FALSE

\* unique=True on ApparelUnit.access_code: an insert of a code some row holds
\* is rejected
CodeTaken(U, code) == \E u \in U : u.code = code

(* ------------------- ApparelItem.refresh_inventory_for_size ------------ *)
\* the refresh with the owner filter dropped from the remaining count
RefreshIgnoringOwners(U, V, i, s) ==
    LET total == Cardinality(UnitsOf(U, i, s))
        row == [item |-> i, size |-> s, quantity_initial |-> total,
                quantity_remaining |-> total]
    IN  IF total = 0 THEN V \ RowsOf(V, i, s) ELSE (V \ RowsOf(V, i, s)) \cup {row}

\* the refresh with the early return on an empty size dropped
RefreshKeepingEmptyRow(U, V, i, s) ==
    LET sized == UnitsOf(U, i, s)
        row == [item |-> i, size |-> s, quantity_initial |-> Cardinality(sized),
                quantity_remaining |-> Cardinality(Unowned(sized))]
    IN  (V \ RowsOf(V, i, s)) \cup {row}

\* the refresh that creates a missing row and never updates a stored one
RefreshNeverUpdating(U, V, i, s) ==
    LET sized == UnitsOf(U, i, s)
    IN  IF sized = {} THEN V \ RowsOf(V, i, s)
        ELSE IF RowsOf(V, i, s) = {}
             THEN V \cup {[item |-> i, size |-> s,
                           quantity_initial |-> Cardinality(sized),
                           quantity_remaining |-> Cardinality(Unowned(sized))]}
             ELSE V

RefreshInventoryForSize(U, V, i, s) ==
    LET sized == UnitsOf(U, i, s)
        total == Cardinality(sized)
        remaining == Cardinality(Unowned(sized))
    IN  IF total = 0
        THEN V \ RowsOf(V, i, s)
        ELSE IF RowsOf(V, i, s) = {}
             THEN V \cup {[item |-> i, size |-> s,
                           quantity_initial |-> total,
                           quantity_remaining |-> remaining]}
             ELSE (V \ RowsOf(V, i, s)) \cup
                  {[r EXCEPT !.quantity_initial = total,
                             !.quantity_remaining = remaining] : r \in RowsOf(V, i, s)}

(* ---------------- ApparelItem._sync_inventory_from_collection ---------- *)
SyncInventoryFromCollection(V, T, i, c) ==
    LET tsizes == TemplateSizes(T, c)
        mine == {r \in V : r.item = i}
        existing == {r.size : r \in mine}
        updated == {[r EXCEPT !.quantity_initial = TemplateQty(T, c, r.size),
                              !.quantity_remaining =
                                  Min(r.quantity_remaining, TemplateQty(T, c, r.size))]
                      : r \in {x \in mine : x.size \in tsizes}}
        created == {[item |-> i, size |-> s,
                     quantity_initial |-> TemplateQty(T, c, s),
                     quantity_remaining |-> TemplateQty(T, c, s)]
                      : s \in tsizes \ existing}
    IN  (V \ mine) \cup updated \cup created

(* ------------------------- ApparelUnit.save --------------------------- *)
\* Operators on a database value db = [units, inv, nextId, drawn, ok]: the
\* unit table, the Size Inventory table, the next primary key, the number of
\* codes the generator has returned to this handler, and whether the handler
\* is still running (FALSE once a statement raised).

\* the timestamp branch that never stamps
AssignedAtUnset(owner, previous_owner, assigned_at, now) ==
    IF previous_owner # NoOwner /\ owner = NoOwner THEN NoTime ELSE assigned_at

\* the timestamp branch that never clears
AssignedAtNoClear(owner, previous_owner, assigned_at, now) ==
    IF owner # NoOwner /\ owner # previous_owner THEN now ELSE assigned_at

\* the timestamp branch of save()
AssignedAt(owner, previous_owner, assigned_at, now) ==
    IF owner # NoOwner /\ owner # previous_owner THEN now
    ELSE IF previous_owner # NoOwner /\ owner = NoOwner THEN NoTime
    ELSE assigned_at

\* save() of a new instance (creating = True), as ApparelUnit.objects.create
\* and the admin inline run it
UnitSaveNew(db, i, s, owner, seed, now) ==
    LET code == GenerateAccessCode(seed, db.drawn + 1)
        unit == [id |-> db.nextId, item |-> i, size |-> s, owner |-> owner,
                 assigned_at |-> AssignedAt(owner, NoOwner, NoTime, now),
                 code |-> code]
        U2 == db.units \cup {unit}
    IN  IF CodeTaken(db.units, code)
        THEN [db EXCEPT !.ok = FALSE, !.drawn = @ + 1]
        ELSE [db EXCEPT !.units = U2,
                        !.inv = RefreshInventoryForSize(U2, db.inv, i, s),
                        !.nextId = @ + 1,
                        !.drawn = @ + 1]

\* the sizes save() refreshes: the new one, then the previous one if it differs
RefreshNewSizeOnly(U, V, i, s, previous_size) == RefreshInventoryForSize(U, V, i, s)

RefreshSizes(U, V, i, s, previous_size) ==
    LET V1 == RefreshInventoryForSize(U, V, i, s)
    IN  IF previous_size # s THEN RefreshInventoryForSize(U, V1, i, previous_size) ELSE V1

\* save() of a stored instance that draws the access code again
UnitSaveRedrawingCode(db, pk, s, owner, now) ==
    LET previous == CHOOSE u \in db.units : u.id = pk
        saved == [previous EXCEPT !.size = s, !.owner = owner,
                                  !.code = (previous.code % NumCodes) + 1]
        U2 == (db.units \ {previous}) \cup {saved}
    IN  [db EXCEPT !.units = U2,
                   !.inv = RefreshInventoryForSize(
                               U2, RefreshInventoryForSize(U2, db.inv, previous.item, s),
                               previous.item, previous.size)]

\* save() of a stored instance (creating = False) whose size and owner were set
UnitSaveExisting(db, pk, s, owner, now) ==
    LET previous == CHOOSE u \in db.units : u.id = pk
        saved == [previous EXCEPT !.size = s, !.owner = owner,
                    !.assigned_at = AssignedAt(owner, previous.owner, previous.assigned_at, now)]
        U2 == (db.units \ {previous}) \cup {saved}
    IN  [db EXCEPT !.units = U2,
                   !.inv = RefreshSizes(U2, db.inv, previous.item, s, previous.size)]

(* ------------------------ ApparelUnit.delete -------------------------- *)
\* the delete that takes every unit of the item and size along
UnitDeleteWholeSize(db, pk) ==
    LET gone == CHOOSE u \in db.units : u.id = pk
        U2 == db.units \ UnitsOf(db.units, gone.item, gone.size)
    IN  [db EXCEPT !.units = U2,
                   !.inv = RefreshInventoryForSize(U2, db.inv, gone.item, gone.size)]

UnitDeleteRow(db, pk) ==
    LET gone == CHOOSE u \in db.units : u.id = pk
        U2 == db.units \ {gone}
    IN  [db EXCEPT !.units = U2,
                   !.inv = RefreshInventoryForSize(U2, db.inv, gone.item, gone.size)]

(* -------------- ApparelItem._ensure_units_from_templates --------------- *)
RECURSIVE CreateMissing(_, _, _, _, _)
\* for _ in range(missing): ApparelUnit.objects.create(item=self, size=size)
CreateMissing(db, i, s, missing, seed) ==
    IF missing = 0 \/ ~db.ok THEN db
    ELSE CreateMissing(UnitSaveNew(db, i, s, NoOwner, seed, NoTime), i, s, missing - 1, seed)

\* the removal query with the owner filter dropped
RemovableAnyOwner(U, i, s, k) ==
    LET sized == UnitsOf(U, i, s)
    IN  {u \in sized : Cardinality({v \in sized : v.id > u.id}) < k}

\* the removal query with the slice dropped
RemovableAllUnowned(U, i, s, k) == Unowned(UnitsOf(U, i, s))

\* the removal query sliced to one row
RemovableNewestOnly(U, i, s, k) ==
    LET free == Unowned(UnitsOf(U, i, s))
    IN  {u \in free : Cardinality({v \in free : v.id > u.id}) < Min(k, 1)}

\* the removal query ordered by "id" instead of "-id"
RemovableOldestFirst(U, i, s, k) ==
    LET free == Unowned(UnitsOf(U, i, s))
    IN  {u \in free : Cardinality({v \in free : v.id < u.id}) < k}

\* filter(size=size, owner__isnull=True).order_by("-id")[:k]
Removable(U, i, s, k) ==
    LET free == Unowned(UnitsOf(U, i, s))
    IN  {u \in free : Cardinality({v \in free : v.id > u.id}) < k}

\* the loop body without its elif branch: units are created, never removed
EnsureSizeGrowOnly(db, i, s, quantity, seed) ==
    LET missing == quantity - Cardinality(UnitsOf(db.units, i, s))
        db1 == IF missing > 0 THEN CreateMissing(db, i, s, missing, seed) ELSE db
    IN  IF db1.ok
        THEN [db1 EXCEPT !.inv = RefreshInventoryForSize(db1.units, @, i, s)]
        ELSE db1

\* the loop body without its closing refresh_inventory_for_size(size)
EnsureSizeNoRefresh(db, i, s, quantity, seed) ==
    LET missing == quantity - Cardinality(UnitsOf(db.units, i, s))
    IN  IF missing > 0 THEN CreateMissing(db, i, s, missing, seed)
        ELSE IF missing < 0
             THEN [db EXCEPT !.units = @ \ Removable(@, i, s, -missing)]
             ELSE db

\* the body of the loop over templates.items(), for one size
EnsureSize(db, i, s, quantity, seed) ==
    LET existing == Cardinality(UnitsOf(db.units, i, s))
        missing == quantity - existing
        db1 == IF missing > 0 THEN CreateMissing(db, i, s, missing, seed)
               ELSE IF missing < 0
                    THEN [db EXCEPT !.units = @ \ Removable(@, i, s, -missing)]
                    ELSE db
    IN  IF db1.ok
        THEN [db1 EXCEPT !.inv = RefreshInventoryForSize(db1.units, @, i, s)]
        ELSE db1

RECURSIVE EnsureTemplateSizes(_, _, _, _, _, _)
\* for size, quantity in templates.items(), in the order of the queryset
EnsureTemplateSizes(db, T, c, i, k, seed) ==
    IF k > Len(SizeOrder) \/ ~db.ok THEN db
    ELSE IF SizeOrder[k] \in TemplateSizes(T, c)
         THEN EnsureTemplateSizes(
                  EnsureSize(db, i, SizeOrder[k], TemplateQty(T, c, SizeOrder[k]), seed),
                  T, c, i, k + 1, seed)
         ELSE EnsureTemplateSizes(db, T, c, i, k + 1, seed)

\* the extra size body without its refresh_inventory_for_size(size)
EnsureExtraSizeNoRefresh(db, i, s) ==
    [db EXCEPT !.units = @ \ Unowned(UnitsOf(@, i, s))]

\* the body of the loop over extra_sizes, for one size
EnsureExtraSize(db, i, s) ==
    LET U2 == db.units \ Unowned(UnitsOf(db.units, i, s))
    IN  [db EXCEPT !.units = U2, !.inv = RefreshInventoryForSize(U2, @, i, s)]

RECURSIVE EnsureExtraSizes(_, _, _)
\* for size in extra_sizes
EnsureExtraSizes(db, i, extra) ==
    IF extra = {} THEN db
    ELSE LET s == CHOOSE x \in extra : TRUE
         IN  EnsureExtraSizes(EnsureExtraSize(db, i, s), i, extra \ {s})

EnsureUnitsFromTemplates(db, T, c, i, seed) ==
    LET db1 == EnsureTemplateSizes(db, T, c, i, 1, seed)
        extra == {u.size : u \in ItemUnits(db1.units, i)} \ TemplateSizes(T, c)
    IN  IF db1.ok THEN EnsureExtraSizes(db1, i, extra) ELSE db1

(* --------------------- ApparelItem.clean / save ----------------------- *)
\* clean(): the collection is a stored row and defines a size template
CleanAlwaysPasses(C, T, c) == TRUE

ItemClean(C, T, c) == c \in C /\ TemplateSizes(T, c) # {}

\* save() past full_clean(): the item row, the sync pass, the reconciliation
ItemSaveDb(db, T, i, c, seed) ==
    EnsureUnitsFromTemplates(
        [db EXCEPT !.inv = SyncInventoryFromCollection(@, T, i, c)], T, c, i, seed)

\* the database value a handler starts from
Db == [units |-> units, inv |-> inv, nextId |-> nextId, drawn |-> 0, ok |-> TRUE]

\* a read that deletes the Size Inventory rows it passes
ReadDroppingRows(db) == [db EXCEPT !.inv = {}]

\* the statements of a read handler (get_object_or_404, count(), the
\* serializer's attribute reads) are SELECTs: the database value they leave
ReadOnly(db) == db

\* the handler's writes are stored
Commit(db) ==
    /\ units' = db.units
    /\ inv' = db.inv
    /\ nextId' = db.nextId

(* ------------------------ requests in progress ------------------------ *)
\* the server processes that handle requests
Procs == {"p1", "p2"}

\* a process between requests: no user, no instance loaded, no counts, no row
\* read, no templates, rows or unit ids read, no prefetch cache, and a
\* refresh that returns to the end of the handler
Idle ==
    [pc |-> "idle", user |-> Anonymous,
     inst |-> [id |-> 0, item |-> "-", size |-> "-", owner |-> NoOwner,
               assigned_at |-> NoTime, code |-> 0],
     previous_owner |-> NoOwner, previous_size |-> "-",
     todo |-> {}, size |-> "-", total |-> 0, remaining |-> 0,
     row |-> [item |-> "-", size |-> "-", quantity_initial |-> 0, quantity_remaining |-> 0],
     gone |-> FALSE, token |-> "-", password |-> "-", collection |-> "-",
     tmpl |-> {}, rows |-> {}, lost |-> {}, sizes |-> {}, ids |-> {}, missing |-> 0,
     cached |-> FALSE, ret |-> "done"]

(* -------------------- accounts: tokens and passwords ------------------- *)
\* token values, passwords, and the length of the clock
TokenIds == {"k1", "k2"}
Usernames == UserIds \cup {"uc"}
Passwords == {"pw0", "pw1", "pw2"}
MaxClock == 3

\* timedelta(days=7) and timedelta(hours=1), in ticks of the clock
RegistrationTtl == 1
RecoveryTtl == 1

\* a timestamp column holding NULL
Never == 0

\* OneTimeRegistrationToken.objects.get(token=k), AccountRecoveryToken likewise
TokenRow(R, k) == CHOOSE t \in R : t.token = k
TokenStored(R, k) == \E t \in R : t.token = k

\* OneTimeRegistrationToken.is_active
RegistrationIsActive(t, now) ==
    IF t.claimed_at # Never THEN FALSE
    ELSE IF t.expires_at # Never /\ t.expires_at < now THEN FALSE
    ELSE TRUE

\* OneTimeRegistrationToken.mark_claimed
MarkClaimed(t, user, now) == [t EXCEPT !.claimed_user = user, !.claimed_at = now]

\* AccountRecoveryToken.is_active
RecoveryIsActive(t, now) ==
    IF t.used_at # Never THEN FALSE
    ELSE IF t.expires_at # Never /\ t.expires_at < now THEN FALSE
    ELSE TRUE

\* AccountRecoveryToken.mark_used
MarkUsed(t, now) == [t EXCEPT !.used_at = now]

\* the columns of ApparelItem
ItemFields == {"name", "slug", "collection", "rarity", "created_at", "updated_at"}

\* ApparelItem.objects.filter(id__in=ids).update(**{field: value}): the
\* query raises FieldDoesNotExist, before it touches a row, when the model has
\* no such field
ItemsUpdateOk(field) == field \in ItemFields

\* the token read without select_for_update(): no claim waits for another
TokenNeverLocked(P, k) == FALSE

\* select_for_update() inside transaction.atomic: the token row is locked by
\* the claim that read it, until that claim commits or rolls back
TokenLocked(P, k) == \E q \in DOMAIN P : P[q].pc = "create_user" /\ P[q].token = k

(* ------------------------- history and answers ----------------------- *)
\* the (access code, unit id) pairs of the stored units
Issued(U) == {<<u.code, u.id>> : u \in U}

\* issued is the history of the unit table: every (access code, unit id) pair
\* that was ever stored, kept when the unit is deleted (SpecCodes keeps no
\* history)
Log == issued' = issued \cup Issued(units')

\* resp is the answer of the last request when the request does nothing but
\* answer (a rejected write, a read); NoResp after a request that wrote
NoResp == [op |-> "-"]

\* the answer of an item save that a rejected unit insert ended
Aborted(i, c) == [op |-> "item_save", item |-> i, collection |-> c, error |-> "IntegrityError"]

\* the answer of an item save that ran to its end
Saved(i, c) == [op |-> "item_save", item |-> i, collection |-> c, error |-> "-"]

(* ------------------------------ actions ------------------------------- *)
\* Collection.objects.create
CollectionCreate(c) ==
    /\ c \notin collections
    /\ collections' = collections \cup {c}
    /\ UNCHANGED <<templates, items, users, units, inv, nextId>>

\* CollectionSizeTemplate create or update of the (collection, size) row: no
\* save() override, no signal, no resync
TemplateSave(c, s, q) ==
    /\ c \in collections
    /\ [collection |-> c, size |-> s, quantity |-> q] \notin templates
    /\ templates' = {t \in templates : ~(t.collection = c /\ t.size = s)}
                      \cup {[collection |-> c, size |-> s, quantity |-> q]}
    /\ UNCHANGED <<collections, items, users, units, inv, nextId>>

\* CollectionSizeTemplate delete
TemplateDelete(c, s) ==
    /\ \E t \in templates : t.collection = c /\ t.size = s
    /\ templates' = {t \in templates : ~(t.collection = c /\ t.size = s)}
    /\ UNCHANGED <<collections, items, users, units, inv, nextId>>

\* User.objects.create_user
UserCreate(u) ==
    /\ u \notin users
    /\ users' = users \cup {u}
    /\ UNCHANGED <<collections, templates, items, units, inv, nextId>>

\* User delete (the admin): the rows that reference the user are collected,
\* the units' owner is set to NULL
UserDelete(u) ==
    /\ u \in users
    /\ users' = users \ {u}
    /\ units' = OwnerSetNull(units, u)
    /\ UNCHANGED <<collections, templates, items, inv, nextId>>

\* ApparelItem.save of a new or stored item that runs to its end
ItemSave(i, c, seed) ==
    /\ ItemClean(collections, templates, c)
    /\ LET db == ItemSaveDb(Db, templates, i, c, seed)
       IN  /\ db.ok
           /\ db.nextId <= MaxUnits + 1
           /\ Commit(db)
    /\ items' = {r \in items : r.id # i} \cup {[id |-> i, collection |-> c]}
    /\ UNCHANGED <<collections, templates, users>>

\* DELETE api/apparel/<pk>/: the collector deletes the units and the rows
\* of the item, then the item
ItemDelete(i) ==
    /\ ItemExists(items, i)
    /\ items' = {r \in items : r.id # i}
    /\ units' = CascadeUnits(units, {i})
    /\ inv' = CascadeRows(inv, {i})
    /\ UNCHANGED <<collections, templates, users, nextId>>

\* DELETE api/collections/<pk>/: the collector deletes the templates and the
\* items of the collection, and with the items their units and rows
CollectionDelete(c) ==
    /\ c \in collections
    /\ collections' = collections \ {c}
    /\ templates' = CascadeTemplates(templates, c)
    /\ items' = CascadeItems(items, c)
    /\ units' = CascadeUnits(units, CollectionItems(items, c))
    /\ inv' = CascadeRows(inv, CollectionItems(items, c))
    /\ UNCHANGED <<users, nextId>>

\* the exception that leaves ApparelItem.clean(): self.collection raises
\* Collection.DoesNotExist when no such collection is stored, and a stored
\* collection without size templates raises ValidationError
ItemCleanError(C, T, c) ==
    IF c \notin C THEN "DoesNotExist" ELSE "ValidationError"

\* ApparelItem.save that full_clean() ends: clean() raises before
\* super().save(), nothing is written
ItemSaveRejected(i, c) ==
    /\ ~ItemClean(collections, templates, c)
    /\ resp' = [op |-> "item_save", item |-> i, collection |-> c,
                error |-> ItemCleanError(collections, templates, c)]
    /\ UNCHANGED <<collections, templates, items, users, units, inv, nextId>>

\* GET api/apparel/lookup/<access_code>/: get_object_or_404, then the serialized unit
LookupRequest(code) ==
    /\ resp' = [op |-> "lookup", code |-> code, result |-> Lookup(units, code)]
    /\ Commit(ReadOnly(Db))
    /\ UNCHANGED <<collections, templates, items, users>>

\* GET api/apparel/<pk>/: the serialized total_units and remaining_units
ItemTotalsRequest(i) ==
    /\ ItemExists(items, i)
    /\ resp' = [op |-> "item_totals", item |-> i,
                total_units |-> TotalUnits(units, i),
                remaining_units |-> RemainingUnits(units, i)]
    /\ Commit(ReadOnly(Db))
    /\ UNCHANGED <<collections, templates, items, users>>

\* GET api/collections/<pk>/: the serialized total_units and remaining_units
CollectionTotalsRequest(c) ==
    /\ c \in collections
    /\ resp' = [op |-> "collection_totals", collection |-> c,
                total_units |-> CollectionTotalUnits(items, units, c),
                remaining_units |-> CollectionRemainingUnits(items, units, c)]
    /\ Commit(ReadOnly(Db))
    /\ UNCHANGED <<collections, templates, items, users>>

\* ApparelItem.save that a rejected unit insert ends: the exception leaves
\* save() after the item row, the sync pass and the units written so far
ItemSaveAborted(i, c, seed) ==
    /\ ItemClean(collections, templates, c)
    /\ LET db == ItemSaveDb(Db, templates, i, c, seed)
       IN  /\ ~db.ok
           /\ db.nextId <= MaxUnits + 1
           /\ Commit(db)
    /\ items' = {r \in items : r.id # i} \cup {[id |-> i, collection |-> c]}
    /\ UNCHANGED <<collections, templates, users>>

\* ApparelUnit.save of a new unit whose insert is rejected: nothing is written
UnitCreateRejected(i, s, owner, seed, now) ==
    /\ ItemExists(items, i)
    /\ owner \in users \cup {NoOwner}
    /\ nextId <= MaxUnits
    /\ ~UnitSaveNew(Db, i, s, owner, seed, now).ok
    /\ UNCHANGED <<collections, templates, items, users, units, inv, nextId>>

\* ApparelUnit.save of a new unit of a stored item
UnitCreate(i, s, owner, seed, now) ==
    /\ ItemExists(items, i)
    /\ owner \in users \cup {NoOwner}
    /\ nextId <= MaxUnits
    /\ LET db == UnitSaveNew(Db, i, s, owner, seed, now)
       IN  db.ok /\ Commit(db)
    /\ UNCHANGED <<collections, templates, items, users>>

\* ApparelUnit.save of a stored unit with a size and an owner
UnitSave(pk, s, owner, now) ==
    /\ \E u \in units : u.id = pk
    /\ owner \in users \cup {NoOwner}
    /\ Commit(UnitSaveExisting(Db, pk, s, owner, now))
    /\ UNCHANGED <<collections, templates, items, users>>

\* PATCH of a unit by user with a size and, or not, an owner_id, as
\* ApparelUnitViewSet.perform_update handles it (catalog/urls.py registers no
\* route for this viewset)
UnitPatch(pk, user, data_owner, s, now) ==
    /\ Stored(units, pk)
    /\ user \in users \cup {Anonymous}
    /\ data_owner \in users \cup {NoOwner, Absent}
    /\ UnitSave(pk, s, PerformUpdateOwner(user, data_owner, Unit(units, pk).owner), now)

\* ApparelUnit.delete
UnitDelete(pk) ==
    /\ \E u \in units : u.id = pk
    /\ Commit(UnitDeleteRow(Db, pk))
    /\ UNCHANGED <<collections, templates, items, users>>

(* ------------------------- accounts: actions -------------------------- *)
\* the clock advances
Tick ==
    /\ clock < MaxClock
    /\ clock' = clock + 1
    /\ UNCHANGED <<users, regTokens, recTokens, passwords, procs>>

\* OneTimeRegistrationToken.objects.create(apparel_item_ids=ids): save() sets
\* expires_at
RegTokenCreate(k, ids) ==
    /\ ~TokenStored(regTokens, k)
    /\ regTokens' = regTokens \cup
                      {[token |-> k, item_ids |-> ids, expires_at |-> clock + RegistrationTtl,
                        claimed_at |-> Never, claimed_user |-> NoOwner]}
    /\ UNCHANGED <<users, recTokens, passwords, clock, procs>>

\* RegistrationClaimView.post, is_valid(): inside the transaction validate()
\* reads the token row FOR UPDATE (the statement waits while another claim
\* holds the row) and rejects a missing or inactive token
ClaimValidate(p, k, username, password) ==
    /\ procs[p].pc = "idle"
    /\ ~TokenLocked(procs, k)
    /\ procs' = [procs EXCEPT ![p] =
                   IF TokenStored(regTokens, k)
                      /\ RegistrationIsActive(TokenRow(regTokens, k), clock)
                   THEN [@ EXCEPT !.pc = "create_user", !.token = k, !.user = username,
                                  !.password = password]
                   ELSE [@ EXCEPT !.pc = "rejected", !.token = k, !.user = username]]
    /\ UNCHANGED <<users, regTokens, recTokens, passwords, clock>>

\* RegistrationClaimView.post, create_user(), the response and the commit:
\* the user row, the update of the listed items, mark_claimed, then the
\* response body reads user.profile_url.  An exception (the username is
\* taken, the update names no column, the url does not reverse) rolls the
\* transaction back.
ClaimCreateUser(p) ==
    LET l == procs[p]
        t == TokenRow(regTokens, l.token)
    IN  /\ l.pc = "create_user"
        /\ IF \/ l.user \in users
              \/ (t.item_ids # {} /\ ~ItemsUpdateOk("owner"))
              \/ ~ProfileUrlOk
           THEN /\ procs' = [procs EXCEPT ![p] = [l EXCEPT !.pc = "error"]]
                /\ UNCHANGED <<users, regTokens, passwords>>
           ELSE /\ users' = users \cup {l.user}
                /\ passwords' = [passwords EXCEPT ![l.user] = l.password]
                /\ regTokens' = (regTokens \ {t}) \cup {MarkClaimed(t, l.user, clock)}
                /\ procs' = [procs EXCEPT ![p] = [l EXCEPT !.pc = "claimed"]]
        /\ UNCHANGED <<recTokens, clock>>

\* AccountRecoveryRequestView.post for a stored user: create_token
RecoveryRequest(k, user) ==
    /\ user \in users
    /\ ~TokenStored(recTokens, k)
    /\ recTokens' = recTokens \cup
                      {[token |-> k, user |-> user, expires_at |-> clock + RecoveryTtl,
                        used_at |-> Never]}
    /\ UNCHANGED <<users, regTokens, passwords, clock, procs>>

\* AccountRecoveryConfirmView.post, is_valid(): validate() reads the token
\* and rejects a missing or inactive one
ConfirmValidate(p, k, password) ==
    /\ procs[p].pc = "idle"
    /\ procs' = [procs EXCEPT ![p] =
                   IF TokenStored(recTokens, k)
                      /\ RecoveryIsActive(TokenRow(recTokens, k), clock)
                   THEN [@ EXCEPT !.pc = "set_password", !.token = k,
                                  !.user = TokenRow(recTokens, k).user,
                                  !.password = password]
                   ELSE [@ EXCEPT !.pc = "rejected", !.token = k]]
    /\ UNCHANGED <<users, regTokens, recTokens, passwords, clock>>

\* update_password(): user.set_password, user.save(update_fields=["password"])
ConfirmSetPassword(p) ==
    LET l == procs[p]
    IN  /\ l.pc = "set_password"
        /\ passwords' = [passwords EXCEPT ![l.user] = l.password]
        /\ procs' = [procs EXCEPT ![p] = [l EXCEPT !.pc = "mark_used"]]
        /\ UNCHANGED <<users, regTokens, recTokens, clock>>

\* update_password(): token.mark_used(), and the 200 response
ConfirmMarkUsed(p) ==
    LET l == procs[p]
    IN  /\ l.pc = "mark_used"
        /\ recTokens' = {IF t.token = l.token THEN MarkUsed(t, clock) ELSE t : t \in recTokens}
        /\ procs' = [procs EXCEPT ![p] = [l EXCEPT !.pc = "confirmed"]]
        /\ UNCHANGED <<users, regTokens, passwords, clock>>

(* --------------------------- specification ---------------------------- *)
\* no registration token, no recovery token, every user with the first
\* password, the clock at its start
NoAccounts ==
    /\ regTokens = {}
    /\ recTokens = {}
    /\ passwords = [u \in Usernames |-> "pw0"]
    /\ clock = 1

\* the empty database
InitEmpty ==
    /\ collections = {}
    /\ templates = {}
    /\ items = {}
    /\ users = {}
    /\ units = {}
    /\ inv = {}
    /\ nextId = 1
    /\ procs = [p \in Procs |-> Idle]
    /\ issued = {}
    /\ resp = NoResp
    /\ NoAccounts

\* Sequential operation of the registry: the collections and one user are
\* stored, no template, item or unit is.  Every handler runs to its end before
\* the next one starts.
Init ==
    /\ collections = CollectionIds
    /\ templates = {}
    /\ items = {}
    /\ users = {"ua"}
    /\ units = {}
    /\ inv = {}
    /\ nextId = 1
    /\ procs = [p \in Procs |-> Idle]
    /\ issued = {}
    /\ resp = NoResp
    /\ NoAccounts

\* the template rows an operator enters
TemplateInputs ==
    {<<"c1", "M", q>> : q \in 0..MaxQty} \cup {<<"c1", "L", 1>>, <<"c2", "M", 1>>}

\* a draw of the generator that returns codes no unit has held before
FreshSeed == ConsecutiveDraws(nextId - 1)

Next ==
    /\ \/ /\ \/ \E x \in TemplateInputs : TemplateSave(x[1], x[2], x[3])
             \/ \E s \in Sizes : TemplateDelete("c1", s)
             \/ \E s \in Sizes, o \in {"ua", NoOwner} :
                   UnitCreate("i1", s, o, FreshSeed, "t1")
             \/ \E pk \in 1..MaxUnits, s \in Sizes, o \in {"ua", NoOwner} :
                   UnitSave(pk, s, o, "t1")
             \/ \E pk \in 1..MaxUnits : UnitDelete(pk)
          /\ resp' = NoResp
       \/ \E c \in CollectionIds : ItemSave("i1", c, FreshSeed) /\ resp' = Saved("i1", c)
    /\ UNCHANGED <<procs, accounts>>
    /\ Log

Spec == Init /\ [][Next]_vars

\* The registry with an unrestricted code generator: a draw may return a code
\* that a stored unit holds, or the same code twice, and the insert is then
\* rejected.  A handler of this specification draws MaxDrawsCodes codes at
\* most (the units of the largest templates entered, TemplateInputsCodes), and
\* CodeSeeds is every sequence of that many codes.
TemplateInputsCodes == {<<"c1", "M", 0>>, <<"c1", "M", 1>>, <<"c1", "M", 2>>, <<"c1", "L", 1>>}

\* the largest quantity entered for size s
LargestQuantity(s) ==
    CHOOSE q \in {x[3] : x \in {y \in TemplateInputsCodes : y[2] = s}} :
        \A x \in TemplateInputsCodes : x[2] = s => x[3] <= q

MaxDrawsCodes == LargestQuantity("M") + LargestQuantity("L")

CodeSeeds == [1..MaxDrawsCodes -> Codes]

NextCodes ==
    /\ \/ /\ \/ \E x \in TemplateInputsCodes : TemplateSave(x[1], x[2], x[3])
             \/ \E seed \in CodeSeeds : ItemSave("i1", "c1", seed)
             \/ \E s \in Sizes, seed \in CodeSeeds :
                   UnitCreate("i1", s, NoOwner, seed, "t1")
             \/ \E s \in Sizes, seed \in CodeSeeds :
                   UnitCreateRejected("i1", s, NoOwner, seed, "t1")
             \/ \E pk \in 1..MaxUnits : UnitDelete(pk)
          /\ resp' = NoResp
       \/ \E seed \in CodeSeeds :
             ItemSaveAborted("i1", "c1", seed) /\ resp' = Aborted("i1", "c1")
    /\ UNCHANGED <<procs, issued, accounts>>

SpecCodes == Init /\ [][NextCodes]_vars

\* The accounts application: registration tokens and claims that create
\* users; recovery tokens and password resets.  Each request is handled by a
\* process, statement by statement (a claim is one transaction).
ItemIdLists == {{}, {"i1"}}

InitAccounts ==
    /\ collections = CollectionIds
    /\ templates = {[collection |-> "c1", size |-> "M", quantity |-> 1]}
    /\ items = {[id |-> "i1", collection |-> "c1"]}
    /\ users = {"ua"}
    /\ units = {[id |-> 1, item |-> "i1", size |-> "M", owner |-> NoOwner,
                 assigned_at |-> NoTime, code |-> 1]}
    /\ inv = RefreshInventoryForSize(units, {}, "i1", "M")
    /\ nextId = 2
    /\ procs = [p \in Procs |-> Idle]
    /\ issued = Issued(units)
    /\ resp = NoResp
    /\ NoAccounts

\* registration: tokens are issued, claims arrive, time passes
NextRegistration ==
    /\ \/ Tick
       \/ \E k \in TokenIds, ids \in ItemIdLists : RegTokenCreate(k, ids)
       \/ \E p \in Procs, k \in TokenIds, u \in Usernames : ClaimValidate(p, k, u, "pw1")
       \/ \E p \in Procs : ClaimCreateUser(p)
    /\ UNCHANGED <<collections, templates, items, units, inv, nextId, issued, resp>>

SpecRegistration == InitAccounts /\ [][NextRegistration]_vars

\* recovery: tokens are requested for the stored user, confirmations arrive,
\* time passes
NextRecovery ==
    /\ \/ Tick
       \/ \E k \in TokenIds : RecoveryRequest(k, "ua")
       \/ \E p \in Procs, k \in TokenIds, pw \in {"pw1", "pw2"} : ConfirmValidate(p, k, pw)
       \/ \E p \in Procs : ConfirmSetPassword(p)
       \/ \E p \in Procs : ConfirmMarkUsed(p)
    /\ UNCHANGED <<collections, templates, items, units, inv, nextId, issued, resp>>

SpecRecovery == InitAccounts /\ [][NextRecovery]_vars

(* ------------------- concurrent requests, by statement ----------------- *)
\* The catalog code opens no transaction and takes no lock, so each statement
\* of a handler commits by itself and the statements of two requests
\* interleave.  A process runs one handler, one statement per step, keeping
\* what the handler holds in Python between statements in procs[p].

tables == <<collections, templates, items, users, nextId>>

\* refresh_inventory_for_size returns: the handler goes on to the next size
\* of sizes_to_refresh, or to the statement after the call (the end of a unit
\* handler; the next statement of an item save)
AfterRefresh(l) ==
    [l EXCEPT !.pc = IF l.todo = {} THEN l.ret ELSE "count_total",
              !.total = 0, !.remaining = 0, !.row = Idle.row, !.gone = FALSE]

\* what the request with the locals l holds of the row of (i, s) once that
\* row is deleted: the copy it is about to save, and the copy in the existing
\* dict of a sync pass, name a primary key that is stored no more
RowDeleted(l, i, s) ==
    [l EXCEPT !.gone = @ \/ (l.pc = "update_row" /\ l.row.item = i /\ l.row.size = s),
              !.lost = @ \cup {r.size : r \in {x \in l.rows : x.item = i /\ x.size = s}}]

\* "if not created:" with its two comparisons: a write is due or not
AfterGet(l, r) ==
    IF r.quantity_initial # l.total \/ r.quantity_remaining # l.remaining
    THEN [l EXCEPT !.row = r, !.gone = FALSE, !.pc = "update_row"]
    ELSE AfterRefresh(l)

\* ApparelUnitViewSet.perform_update for request.user and the owner_id of
\* the payload: get_object() loads the unit and the serializer sets the
\* validated size and the owner on the instance
StartUnitSave(p, pk, user, data_owner, s) ==
    /\ procs[p].pc = "idle"
    /\ Stored(units, pk)
    /\ user \in users \cup {Anonymous}
    /\ data_owner \in users \cup {NoOwner, Absent}
    /\ procs' = [procs EXCEPT ![p] =
                   [@ EXCEPT !.pc = "get_previous",
                             !.user = user,
                             !.inst = [Unit(units, pk) EXCEPT
                                         !.size = s,
                                         !.owner = PerformUpdateOwner(
                                                       user, data_owner,
                                                       Unit(units, pk).owner)]]]
    /\ UNCHANGED <<tables, units, inv>>

\* save(): previous = type(self).objects.get(pk=self.pk)
GetPrevious(p) ==
    LET l == procs[p]
    IN  /\ l.pc = "get_previous"
        /\ procs' = [procs EXCEPT ![p] =
                       IF Stored(units, l.inst.id)
                       THEN [l EXCEPT !.pc = "write_unit",
                                      !.previous_owner = Unit(units, l.inst.id).owner,
                                      !.previous_size = Unit(units, l.inst.id).size]
                       ELSE [l EXCEPT !.pc = "failed"]]
        /\ UNCHANGED <<tables, units, inv>>

\* save(): super().save(), the UPDATE by key of every field of the
\* instance; when it matches no row the save goes on to an INSERT
WriteUnit(p) ==
    LET l == procs[p]
        others == {u \in units : u.id # l.inst.id}
    IN  /\ l.pc = "write_unit"
        /\ IF ~Stored(units, l.inst.id)
           THEN /\ procs' = [procs EXCEPT ![p] = [l EXCEPT !.pc = "insert_unit"]]
                /\ UNCHANGED units
           ELSE IF CodeTaken(others, l.inst.code)
           THEN /\ procs' = [procs EXCEPT ![p] = [l EXCEPT !.pc = "failed"]]
                /\ UNCHANGED units
           ELSE /\ units' = others \cup {l.inst}
                /\ procs' = [procs EXCEPT ![p] = [l EXCEPT !.pc = "stamp"]]
        /\ UNCHANGED <<tables, inv>>

\* save(): super().save(), the INSERT after an UPDATE that matched no row;
\* a stored row with the key or with the access code rejects it
\* (IntegrityError)
InsertUnit(p) ==
    LET l == procs[p]
    IN  /\ l.pc = "insert_unit"
        /\ IF Stored(units, l.inst.id) \/ CodeTaken(units, l.inst.code)
           THEN /\ procs' = [procs EXCEPT ![p] = [l EXCEPT !.pc = "failed"]]
                /\ UNCHANGED units
           ELSE /\ units' = units \cup {l.inst}
                /\ procs' = [procs EXCEPT ![p] = [l EXCEPT !.pc = "stamp"]]
        /\ UNCHANGED <<tables, inv>>

\* save(): the timestamp branch and its UPDATE of assigned_at, then
\* sizes_to_refresh
Stamp(p, now) ==
    LET l == procs[p]
        at == AssignedAt(l.inst.owner, l.previous_owner, l.inst.assigned_at, now)
    IN  /\ l.pc = "stamp"
        /\ units' = IF at # l.inst.assigned_at
                    THEN {IF u.id = l.inst.id THEN [u EXCEPT !.assigned_at = at] ELSE u
                            : u \in units}
                    ELSE units
        /\ procs' = [procs EXCEPT ![p] =
                       [l EXCEPT !.pc = "count_total",
                                 !.inst = [l.inst EXCEPT !.assigned_at = at],
                                 !.todo = {l.inst.size, l.previous_size}]]
        /\ UNCHANGED <<tables, inv>>

\* the admin loads the unit it is about to delete
StartUnitDelete(p, pk) ==
    /\ procs[p].pc = "idle"
    /\ Stored(units, pk)
    /\ procs' = [procs EXCEPT ![p] = [@ EXCEPT !.pc = "delete_unit", !.inst = Unit(units, pk)]]
    /\ UNCHANGED <<tables, units, inv>>

\* delete(): super().delete()
DeleteUnit(p) ==
    LET l == procs[p]
    IN  /\ l.pc = "delete_unit"
        /\ units' = {u \in units : u.id # l.inst.id}
        /\ procs' = [procs EXCEPT ![p] = [l EXCEPT !.pc = "count_total", !.todo = {l.inst.size}]]
        /\ UNCHANGED <<tables, inv>>

\* refresh_inventory_for_size: total = units.count(), for the next size
CountTotal(p) ==
    LET l == procs[p]
    IN  /\ l.pc = "count_total"
        /\ \E s \in l.todo :
              procs' = [procs EXCEPT ![p] =
                          [l EXCEPT !.pc = "count_remaining", !.size = s, !.todo = @ \ {s},
                                    !.total = Cardinality(UnitsOf(units, l.inst.item, s))]]
        /\ UNCHANGED <<tables, units, inv>>

\* refresh_inventory_for_size: remaining = units.filter(owner__isnull=True).count()
CountRemaining(p) ==
    LET l == procs[p]
    IN  /\ l.pc = "count_remaining"
        /\ procs' = [procs EXCEPT ![p] =
                       [l EXCEPT !.pc = IF l.total = 0 THEN "delete_row" ELSE "get_row",
                                 !.remaining =
                                     Cardinality(Unowned(UnitsOf(units, l.inst.item, l.size)))]]
        /\ UNCHANGED <<tables, units, inv>>

\* refresh_inventory_for_size: size_inventories.filter(size=size).delete();
\* a copy of the deleted row that another request holds names no row any more
DeleteRow(p) ==
    LET l == procs[p]
        rows == RowsOf(inv, l.inst.item, l.size)
    IN  /\ l.pc = "delete_row"
        /\ inv' = inv \ rows
        /\ procs' = [q \in Procs |->
                       IF q = p THEN AfterRefresh(l)
                       ELSE IF rows # {} THEN RowDeleted(procs[q], l.inst.item, l.size)
                       ELSE procs[q]]
        /\ UNCHANGED <<tables, units>>

\* get_or_create: the get
GetRow(p) ==
    LET l == procs[p]
        rows == RowsOf(inv, l.inst.item, l.size)
    IN  /\ l.pc = "get_row"
        /\ procs' = [procs EXCEPT ![p] =
                       IF rows = {} THEN [l EXCEPT !.pc = "create_row"]
                       ELSE AfterGet(l, Row(inv, l.inst.item, l.size))]
        /\ UNCHANGED <<tables, units, inv>>

\* get_or_create: the create with the defaults; the unique (item, size)
\* rejects the INSERT when a row is there (IntegrityError, caught)
CreateRow(p) ==
    LET l == procs[p]
        rows == RowsOf(inv, l.inst.item, l.size)
    IN  /\ l.pc = "create_row"
        /\ IF rows = {}
           THEN /\ inv' = inv \cup {[item |-> l.inst.item, size |-> l.size,
                                     quantity_initial |-> l.total,
                                     quantity_remaining |-> l.remaining]}
                /\ procs' = [procs EXCEPT ![p] = AfterRefresh(l)]
           ELSE /\ UNCHANGED inv
                /\ procs' = [procs EXCEPT ![p] = [l EXCEPT !.pc = "get_row_again"]]
        /\ UNCHANGED <<tables, units>>

\* get_or_create: the get after the rejected create; when the row is gone
\* again the IntegrityError is raised anew and leaves the handler
GetRowAgain(p) ==
    LET l == procs[p]
        rows == RowsOf(inv, l.inst.item, l.size)
    IN  /\ l.pc = "get_row_again"
        /\ procs' = [procs EXCEPT ![p] =
                       IF rows = {} THEN [l EXCEPT !.pc = "failed"]
                       ELSE AfterGet(l, Row(inv, l.inst.item, l.size))]
        /\ UNCHANGED <<tables, units, inv>>

\* inventory.save(update_fields=updated_fields): only the fields that
\* differed in the copy read by get are written; the save raises when the row
\* it read is gone
UpdateRow(p) ==
    LET l == procs[p]
        stored == Row(inv, l.inst.item, l.size)
        written == [stored EXCEPT
                      !.quantity_initial =
                          IF l.row.quantity_initial # l.total THEN l.total ELSE @,
                      !.quantity_remaining =
                          IF l.row.quantity_remaining # l.remaining THEN l.remaining ELSE @]
    IN  /\ l.pc = "update_row"
        /\ IF l.gone
           THEN /\ UNCHANGED inv
                /\ procs' = [procs EXCEPT ![p] = [l EXCEPT !.pc = "failed"]]
           ELSE /\ inv' = (inv \ {stored}) \cup {written}
                /\ procs' = [procs EXCEPT ![p] = AfterRefresh(l)]
        /\ UNCHANGED <<tables, units>>

\* The registry with its answers and its history: rejected item saves,
\* lookups, and a code generator that may return the code of a deleted unit
\* (a draw of a stored unit's code is left to SpecCodes).
TemplateInputsAnswers == {<<"c1", "M", 1>>, <<"c1", "L", 1>>}

SeedsAnswers == {ConsecutiveDraws(start) : start \in {0, 1}}

\* the owner a unit is created with: none, or a stored user
OwnersAnswers == {NoOwner, "ua"}

NextAnswers ==
    /\ \/ /\ \/ \E x \in TemplateInputsAnswers : TemplateSave(x[1], x[2], x[3])
             \/ \E s \in Sizes : TemplateDelete("c1", s)
             \/ \E s \in Sizes, o \in OwnersAnswers, seed \in SeedsAnswers :
                   UnitCreate("i1", s, o, seed, "t1")
             \/ \E pk \in 1..MaxUnits : UnitDelete(pk)
          /\ resp' = NoResp
       \/ \E seed \in SeedsAnswers : ItemSave("i1", "c1", seed) /\ resp' = Saved("i1", "c1")
       \/ \E c \in CollectionIds : ItemSaveRejected("i1", c)
       \/ \E code \in Codes : LookupRequest(code)
       \/ ItemTotalsRequest("i1")
       \/ CollectionTotalsRequest("c1")
    /\ UNCHANGED <<procs, accounts>>
    /\ Log

SpecAnswers == Init /\ [][NextAnswers]_vars

\* The registry with two items and two users: items of both collections,
\* updates of units through the endpoint by either user or by nobody, and
\* the removal of users.
TemplateInputsOwners == {<<"c1", "M", 1>>, <<"c2", "L", 1>>}

\* the (request user, owner_id of the payload) pairs of the updates
PatchInputs ==
    {<<"ua", Absent>>, <<"ub", Absent>>, <<Anonymous, NoOwner>>, <<Anonymous, Absent>>}

InitOwners ==
    /\ collections = CollectionIds
    /\ templates = {}
    /\ items = {}
    /\ users = UserIds
    /\ units = {}
    /\ inv = {}
    /\ nextId = 1
    /\ procs = [p \in Procs |-> Idle]
    /\ issued = {}
    /\ resp = NoResp
    /\ NoAccounts

NextOwners ==
    /\ \/ \E x \in TemplateInputsOwners : TemplateSave(x[1], x[2], x[3])
       \/ \E i \in ItemIds, c \in CollectionIds : ItemSave(i, c, FreshSeed)
       \/ \E pk \in 1..MaxUnits, x \in PatchInputs :
             UnitPatch(pk, x[1], x[2], Unit(units, pk).size, "t1")
       \/ \E pk \in 1..MaxUnits : UnitDelete(pk)
       \/ \E u \in UserIds : UserDelete(u)
    /\ UNCHANGED <<procs, resp, accounts>>
    /\ Log

SpecOwners == InitOwners /\ [][NextOwners]_vars

\* Owner changes over time: the units of one item are saved with either
\* user or no owner, at either instant.
TemplateInputsStamps == {<<"c1", "M", 1>>, <<"c1", "M", 2>>}

NextStamps ==
    /\ \/ \E x \in TemplateInputsStamps : TemplateSave(x[1], x[2], x[3])
       \/ ItemSave("i1", "c1", FreshSeed)
       \/ \E pk \in 1..MaxUnits, o \in UserIds \cup {NoOwner}, now \in Times :
             UnitSave(pk, Unit(units, pk).size, o, now)
    /\ UNCHANGED <<procs, resp, accounts>>
    /\ Log

SpecStamps == InitOwners /\ [][NextStamps]_vars

\* Deletions: two collections with a template each, two items, units given
\* to the user, and the deletion of items and of collections.
NextCascade ==
    /\ \/ \E c \in CollectionIds : CollectionCreate(c)
       \/ \E x \in TemplateInputsOwners : TemplateSave(x[1], x[2], x[3])
       \/ \E i \in ItemIds, c \in CollectionIds : ItemSave(i, c, FreshSeed)
       \/ \E pk \in 1..MaxUnits : UnitSave(pk, Unit(units, pk).size, "ua", "t1")
       \/ \E i \in ItemIds : ItemDelete(i)
       \/ \E c \in CollectionIds : CollectionDelete(c)
    /\ UNCHANGED <<procs, resp, accounts>>
    /\ Log

SpecCascade == Init /\ [][NextCascade]_vars

\* two units of size M of item i1 of collection c1 (template M:2), each
\* unowned or owned by ua, with the row of M current: a state the sequential
\* handlers reach
InitConc ==
    /\ collections = CollectionIds
    /\ templates = {[collection |-> "c1", size |-> "M", quantity |-> 2]}
    /\ items = {[id |-> "i1", collection |-> "c1"]}
    /\ users = UserIds
    /\ \E o1 \in {"ua", NoOwner}, o2 \in {"ua", NoOwner} :
          units = {[id |-> 1, item |-> "i1", size |-> "M", owner |-> o1,
                    assigned_at |-> IF o1 = NoOwner THEN NoTime ELSE "t1", code |-> 1],
                   [id |-> 2, item |-> "i1", size |-> "M", owner |-> o2,
                    assigned_at |-> IF o2 = NoOwner THEN NoTime ELSE "t1", code |-> 2]}
    /\ inv = RefreshInventoryForSize(units, {}, "i1", "M")
    /\ nextId = 3
    /\ procs = [p \in Procs |-> Idle]
    /\ issued = Issued(units)
    /\ resp = NoResp
    /\ NoAccounts

NextConc ==
    /\ \E p \in Procs :
          \/ \E pk \in 1..MaxUnits, x \in PatchInputs, s \in Sizes :
                StartUnitSave(p, pk, x[1], x[2], s)
          \/ GetPrevious(p)
          \/ WriteUnit(p)
          \/ InsertUnit(p)
          \/ Stamp(p, "t2")
          \/ \E pk \in 1..MaxUnits : StartUnitDelete(p, pk)
          \/ DeleteUnit(p)
          \/ CountTotal(p)
          \/ CountRemaining(p)
          \/ DeleteRow(p)
          \/ GetRow(p)
          \/ CreateRow(p)
          \/ GetRowAgain(p)
          \/ UpdateRow(p)
    /\ UNCHANGED <<resp, accounts>>
    /\ Log

SpecConc == InitConc /\ [][NextConc]_vars

(* ----------------- item save, statement by statement ------------------ *)
\* ApparelItem.save opens no transaction and takes no lock: the item row, the
\* rows written by the sync pass and the units and rows written by the
\* reconciliation are stored, and visible to every other request, as each
\* statement writes them, and the statements of other requests run between
\* them.  The process Saver runs one item save, one statement per step; the
\* other process runs one update or delete of a unit, one statement per
\* step; the templates of the collection are edited meanwhile.
Saver == "p1"

\* the next size of a queryset ordered by size, among the sizes S
FirstSize(S) ==
    SizeOrder[CHOOSE k \in 1..Len(SizeOrder) :
                 /\ SizeOrder[k] \in S
                 /\ \A j \in 1..(k - 1) : SizeOrder[j] \notin S]

\* PUT/PATCH apparel/<pk>/, get_object(): the queryset of ApparelItemViewSet
\* prefetches size_inventories, so the rows of the stored item are read here
\* and kept in the instance's prefetch cache
ItemGetObject(i) ==
    /\ procs[Saver].pc = "idle"
    /\ ItemExists(items, i)
    /\ procs' = [procs EXCEPT ![Saver] =
                   [@ EXCEPT !.pc = "got_object", !.inst = [@ EXCEPT !.item = i],
                             !.rows = {r \in inv : r.item = i}, !.lost = {},
                             !.cached = TRUE]]
    /\ UNCHANGED <<collections, templates, items, users, units, inv, nextId>>

\* save(): full_clean() passes; of an instance built by the caller (POST
\* apparel/, the admin, the ORM) or of the one get_object() loaded
ItemSaveClean(i, c) ==
    /\ \/ procs[Saver].pc = "idle"
       \/ procs[Saver].pc = "got_object" /\ procs[Saver].inst.item = i
    /\ ItemClean(collections, templates, c)
    /\ procs' = [procs EXCEPT ![Saver] =
                   [@ EXCEPT !.pc = "insert_item", !.inst = [@ EXCEPT !.item = i],
                             !.collection = c]]
    /\ UNCHANGED <<collections, templates, items, users, units, inv, nextId>>

\* save(): super().save() stores the item row
ItemSaveInsert ==
    LET l == procs[Saver]
    IN  /\ l.pc = "insert_item"
        /\ items' = {r \in items : r.id # l.inst.item}
                      \cup {[id |-> l.inst.item, collection |-> l.collection]}
        /\ procs' = [procs EXCEPT ![Saver] = [l EXCEPT !.pc = "sync_templates"]]
        /\ UNCHANGED <<collections, templates, users, units, inv, nextId>>

\* _sync_inventory_from_collection: the templates dict
SyncReadTemplates ==
    LET l == procs[Saver]
    IN  /\ l.pc = "sync_templates"
        /\ procs' = [procs EXCEPT ![Saver] =
                       [l EXCEPT !.pc = "sync_rows",
                                 !.tmpl = {t \in templates : t.collection = l.collection}]]
        /\ UNCHANGED <<collections, templates, items, users, units, inv, nextId>>

\* _sync_inventory_from_collection: the existing dict, a copy of each row of
\* the item: self.size_inventories.all() answers from the prefetch cache when
\* the instance has one, and reads the rows otherwise
SyncReadRows ==
    LET l == procs[Saver]
    IN  /\ l.pc = "sync_rows"
        /\ procs' = [procs EXCEPT ![Saver] =
                       IF l.cached
                       THEN [l EXCEPT !.pc = "sync_size",
                                      !.sizes = {t.size : t \in l.tmpl}]
                       ELSE [l EXCEPT !.pc = "sync_size",
                                      !.rows = {r \in inv : r.item = l.inst.item},
                                      !.lost = {},
                                      !.sizes = {t.size : t \in l.tmpl}]]
        /\ UNCHANGED <<collections, templates, items, users, units, inv, nextId>>

\* _sync_inventory_from_collection: the loop over templates.items(), for the
\* next size: stock.save(update_fields=...) of the fields that differ in the
\* copy read, an UPDATE by the primary key of that copy which raises when it
\* matches no row; or objects.create of the row, which the unique
\* (item, size) rejects when a row is stored.  After the loop, the sizes of
\* the copies that are not in the templates.
SyncSize ==
    LET l == procs[Saver]
        s == FirstSize(l.sizes)
        q == TemplateQty(l.tmpl, l.collection, s)
        copy == RowsOf(l.rows, l.inst.item, s)
        stored == RowsOf(inv, l.inst.item, s)
        changed == \E x \in copy : x.quantity_initial # q \/ x.quantity_remaining > q
        written == {[r EXCEPT
                       !.quantity_initial =
                           IF \E x \in copy : x.quantity_initial # q THEN q ELSE @,
                       !.quantity_remaining =
                           IF \E x \in copy : x.quantity_remaining > q THEN q ELSE @]
                     : r \in stored}
        failed == IF copy # {} THEN changed /\ (s \in l.lost \/ stored = {})
                  ELSE stored # {}
    IN  /\ l.pc = "sync_size"
        /\ IF l.sizes = {}
           THEN /\ UNCHANGED inv
                /\ procs' = [procs EXCEPT ![Saver] =
                               [l EXCEPT !.pc = "sync_delete",
                                         !.sizes = {r.size : r \in l.rows}
                                                     \ {t.size : t \in l.tmpl}]]
           ELSE IF failed
           THEN /\ UNCHANGED inv
                /\ procs' = [procs EXCEPT ![Saver] = [l EXCEPT !.pc = "failed"]]
           ELSE /\ inv' = IF copy # {}
                          THEN IF changed THEN (inv \ stored) \cup written ELSE inv
                          ELSE inv \cup {[item |-> l.inst.item, size |-> s,
                                          quantity_initial |-> q,
                                          quantity_remaining |-> q]}
                /\ procs' = [procs EXCEPT ![Saver] = [l EXCEPT !.sizes = @ \ {s}]]
        /\ UNCHANGED <<collections, templates, items, users, units, nextId>>

\* _sync_inventory_from_collection: stock.delete() of the next copy whose
\* size is not in the templates, a DELETE by the primary key of that copy:
\* it deletes nothing when that row is stored no more.  After the loop
\* nothing reads the copies or the prefetch cache again.
SyncDelete ==
    LET l == procs[Saver]
        s == FirstSize(l.sizes)
        rows == IF s \in l.lost THEN {} ELSE RowsOf(inv, l.inst.item, s)
    IN  /\ l.pc = "sync_delete"
        /\ IF l.sizes = {}
           THEN /\ UNCHANGED inv
                /\ procs' = [procs EXCEPT ![Saver] =
                               [l EXCEPT !.pc = "ensure_read", !.rows = {}, !.lost = {},
                                         !.cached = FALSE]]
           ELSE /\ inv' = inv \ rows
                /\ procs' = [q \in Procs |->
                               IF q = Saver THEN [l EXCEPT !.sizes = @ \ {s}]
                               ELSE IF rows # {} THEN RowDeleted(procs[q], l.inst.item, s)
                               ELSE procs[q]]
        /\ UNCHANGED <<collections, templates, items, users, units, nextId>>

\* _ensure_units_from_templates: the templates dict
EnsureRead ==
    LET l == procs[Saver]
        T == {t \in templates : t.collection = l.collection}
    IN  /\ l.pc = "ensure_read"
        /\ procs' = [procs EXCEPT ![Saver] =
                       [l EXCEPT !.pc = "ensure_size", !.tmpl = T,
                                 !.sizes = {t.size : t \in T}]]
        /\ UNCHANGED <<collections, templates, items, users, units, inv, nextId>>

\* _ensure_units_from_templates: the loop over templates.items(), for the
\* next size: existing = count(), missing = quantity - existing; after the
\* loop, the query of extra_sizes
EnsureCount ==
    LET l == procs[Saver]
        s == FirstSize(l.sizes)
        missing == TemplateQty(l.tmpl, l.collection, s)
                     - Cardinality(UnitsOf(units, l.inst.item, s))
    IN  /\ l.pc = "ensure_size"
        /\ procs' = [procs EXCEPT ![Saver] =
                       IF l.sizes = {}
                       THEN [l EXCEPT !.pc = "extra_size",
                                      !.sizes = {u.size : u \in ItemUnits(units, l.inst.item)}
                                                  \ {t.size : t \in l.tmpl}]
                       ELSE [l EXCEPT !.size = s, !.missing = missing,
                                      !.pc = IF missing > 0 THEN "create_unit"
                                             ELSE IF missing < 0 THEN "remove_select"
                                             ELSE "refresh_size"]]
        /\ UNCHANGED <<collections, templates, items, users, units, inv, nextId>>

\* ApparelUnit.objects.create(item=self, size=size): the INSERT of the
\* unit's save(), which goes on to refresh_inventory_for_size(size) and then
\* to the next round of the create loop
EnsureCreateUnit ==
    LET l == procs[Saver]
        code == GenerateAccessCode(FreshSeed, 1)
    IN  /\ l.pc = "create_unit"
        /\ nextId <= MaxUnits
        /\ IF CodeTaken(units, code)
           THEN /\ UNCHANGED <<units, nextId>>
                /\ procs' = [procs EXCEPT ![Saver] = [l EXCEPT !.pc = "failed"]]
           ELSE /\ units' = units \cup
                              {[id |-> nextId, item |-> l.inst.item, size |-> l.size,
                                owner |-> NoOwner, assigned_at |-> NoTime, code |-> code]}
                /\ nextId' = nextId + 1
                /\ procs' = [procs EXCEPT ![Saver] =
                               [l EXCEPT !.pc = "count_total", !.todo = {l.size},
                                         !.missing = @ - 1,
                                         !.ret = IF l.missing > 1 THEN "create_unit"
                                                 ELSE "refresh_size"]]
        /\ UNCHANGED <<collections, templates, items, users, inv>>

\* _ensure_units_from_templates: removable_ids, the ids of the newest
\* unowned units of the size
EnsureRemoveSelect ==
    LET l == procs[Saver]
        ids == {u.id : u \in Removable(units, l.inst.item, l.size, -l.missing)}
    IN  /\ l.pc = "remove_select"
        /\ procs' = [procs EXCEPT ![Saver] =
                       [l EXCEPT !.ids = ids,
                                 !.pc = IF ids = {} THEN "refresh_size" ELSE "remove_units"]]
        /\ UNCHANGED <<collections, templates, items, users, units, inv, nextId>>

\* _ensure_units_from_templates: filter(id__in=removable_ids).delete(), of
\* the units with these ids whatever their owner is by now
EnsureRemoveUnits ==
    LET l == procs[Saver]
    IN  /\ l.pc = "remove_units"
        /\ units' = {u \in units : u.id \notin l.ids}
        /\ procs' = [procs EXCEPT ![Saver] = [l EXCEPT !.pc = "refresh_size", !.ids = {}]]
        /\ UNCHANGED <<collections, templates, items, users, inv, nextId>>

\* _ensure_units_from_templates: self.refresh_inventory_for_size(size) that
\* ends the loop body, its count of the units of the size
EnsureRefreshSize ==
    LET l == procs[Saver]
    IN  /\ l.pc = "refresh_size"
        /\ procs' = [procs EXCEPT ![Saver] =
                       [l EXCEPT !.pc = "count_remaining", !.todo = {},
                                 !.total = Cardinality(UnitsOf(units, l.inst.item, l.size)),
                                 !.sizes = @ \ {l.size}, !.ret = "ensure_size"]]
        /\ UNCHANGED <<collections, templates, items, users, units, inv, nextId>>

\* _ensure_units_from_templates: the loop over extra_sizes (a set, in any
\* order), removable.exists() for the next size; after the loop save() returns
EnsureExtraExists ==
    LET l == procs[Saver]
    IN  /\ l.pc = "extra_size"
        /\ IF l.sizes = {}
           THEN procs' = [procs EXCEPT ![Saver] = [Idle EXCEPT !.pc = "done"]]
           ELSE \E s \in l.sizes :
                   procs' = [procs EXCEPT ![Saver] =
                               [l EXCEPT !.size = s,
                                         !.pc = IF Unowned(UnitsOf(units, l.inst.item, s)) # {}
                                                THEN "extra_delete" ELSE "extra_refresh"]]
        /\ UNCHANGED <<collections, templates, items, users, units, inv, nextId>>

\* _ensure_units_from_templates: removable.delete(), one DELETE of the
\* unowned units of the extra size
EnsureExtraRemove ==
    LET l == procs[Saver]
    IN  /\ l.pc = "extra_delete"
        /\ units' = units \ Unowned(UnitsOf(units, l.inst.item, l.size))
        /\ procs' = [procs EXCEPT ![Saver] = [l EXCEPT !.pc = "extra_refresh"]]
        /\ UNCHANGED <<collections, templates, items, users, inv, nextId>>

\* _ensure_units_from_templates: self.refresh_inventory_for_size(size) of the
\* extra size, its count of the units of the size
EnsureExtraRefresh ==
    LET l == procs[Saver]
    IN  /\ l.pc = "extra_refresh"
        /\ procs' = [procs EXCEPT ![Saver] =
                       [l EXCEPT !.pc = "count_remaining", !.todo = {},
                                 !.total = Cardinality(UnitsOf(units, l.inst.item, l.size)),
                                 !.sizes = @ \ {l.size}, !.ret = "extra_size"]]
        /\ UNCHANGED <<collections, templates, items, users, units, inv, nextId>>

\* the request of a unit has ended, with its response or with the exception
\* that left the handler: its locals are gone
Finish(p) ==
    /\ procs[p].pc \in {"done", "failed"}
    /\ procs' = [procs EXCEPT ![p] = [Idle EXCEPT !.pc = "over"]]
    /\ UNCHANGED <<collections, templates, items, users, units, inv, nextId>>

\* the template rows entered while the save runs
TemplateInputsPasses == {<<"c1", "M", 1>>, <<"c1", "M", 2>>, <<"c1", "L", 1>>}

\* the (request user, owner_id of the payload) pairs of the updates that run
\* beside the save
PatchInputsPasses == {<<"ua", Absent>>, <<Anonymous, NoOwner>>}

\* the registry when the save starts, each a state the sequential handlers
\* reach: no item yet; item i1 with two unowned units of M and the row (2, 2);
\* item i1 with an unowned unit of M, a unit of L owned by ua, and their rows.
\* Collection c1 has a template for M, or for M and L.
InitPasses ==
    /\ collections = CollectionIds
    /\ templates \in {{[collection |-> "c1", size |-> "M", quantity |-> 1]},
                      {[collection |-> "c1", size |-> "M", quantity |-> 1],
                       [collection |-> "c1", size |-> "L", quantity |-> 1]}}
    /\ users = {"ua"}
    /\ \/ /\ items = {}
          /\ units = {}
          /\ nextId = 1
       \/ /\ items = {[id |-> "i1", collection |-> "c1"]}
          /\ units = {[id |-> 1, item |-> "i1", size |-> "M", owner |-> NoOwner,
                       assigned_at |-> NoTime, code |-> 1],
                      [id |-> 2, item |-> "i1", size |-> "M", owner |-> NoOwner,
                       assigned_at |-> NoTime, code |-> 2]}
          /\ nextId = 3
       \/ /\ items = {[id |-> "i1", collection |-> "c1"]}
          /\ units = {[id |-> 1, item |-> "i1", size |-> "M", owner |-> NoOwner,
                       assigned_at |-> NoTime, code |-> 1],
                      [id |-> 2, item |-> "i1", size |-> "L", owner |-> "ua",
                       assigned_at |-> "t1", code |-> 2]}
          /\ nextId = 3
    /\ inv = RefreshInventoryForSize(units, RefreshInventoryForSize(units, {}, "i1", "M"),
                                     "i1", "L")
    /\ procs = [p \in Procs |-> Idle]
    /\ issued = Issued(units)
    /\ resp = NoResp
    /\ NoAccounts

NextPasses ==
    /\ \/ (\E x \in TemplateInputsPasses : TemplateSave(x[1], x[2], x[3]))
             /\ UNCHANGED procs
       \/ (\E s \in Sizes : TemplateDelete("c1", s)) /\ UNCHANGED procs
       \/ ItemGetObject("i1")
       \/ ItemSaveClean("i1", "c1")
       \/ ItemSaveInsert
       \/ SyncReadTemplates
       \/ SyncReadRows
       \/ SyncSize
       \/ SyncDelete
       \/ EnsureRead
       \/ EnsureCount
       \/ EnsureCreateUnit
       \/ EnsureRemoveSelect
       \/ EnsureRemoveUnits
       \/ EnsureRefreshSize
       \/ EnsureExtraExists
       \/ EnsureExtraRemove
       \/ EnsureExtraRefresh
       \/ \E p \in Procs \ {Saver} :
             \/ \E pk \in 1..MaxUnits, x \in PatchInputsPasses :
                   StartUnitSave(p, pk, x[1], x[2], Unit(units, pk).size)
             \/ GetPrevious(p)
             \/ WriteUnit(p)
             \/ InsertUnit(p)
             \/ Stamp(p, "t2")
             \/ \E pk \in 1..MaxUnits : StartUnitDelete(p, pk)
             \/ DeleteUnit(p)
             \/ Finish(p)
       \/ \E p \in Procs :
             \/ CountTotal(p)
             \/ CountRemaining(p)
             \/ DeleteRow(p)
             \/ GetRow(p)
             \/ CreateRow(p)
             \/ GetRowAgain(p)
             \/ UpdateRow(p)
    /\ UNCHANGED <<resp, accounts>>
    /\ Log

SpecPasses == InitPasses /\ [][NextPasses]_vars

(* ------------------------------ claims -------------------------------- *)
HasRow(V, i, s, initial, remaining) ==
    /\ Cardinality(RowsOf(V, i, s)) = 1
    /\ Row(V, i, s).quantity_initial = initial
    /\ Row(V, i, s).quantity_remaining = remaining
\* the item resync step of the specification
Resync(c) == ItemSave("i1", c, FreshSeed)

\* C1: after any sequence of completed unit creations, deletions, owner
\* assignments and un-assignments (and item saves), every (item, size) that has
\* a unit has one Size Inventory row, whose quantity_initial is the number of
\* units of the size and whose quantity_remaining is the number of unowned ones.
InventoryEqualsUnitCounts ==
    \A i \in ItemIds, s \in Sizes :
        UnitsOf(units, i, s) # {} =>
            HasRow(inv, i, s, Cardinality(UnitsOf(units, i, s)),
                   Cardinality(Unowned(UnitsOf(units, i, s))))

\* C1 witness: a size holds an owned and an unowned unit after a unit was deleted
InventoryAfterMixedUnitOps ==
    /\ \E s \in Sizes : /\ Owned(UnitsOf(units, "i1", s)) # {}
                        /\ Unowned(UnitsOf(units, "i1", s)) # {}
    /\ Cardinality(units) < nextId - 1

\* C2: an item resync deletes no owned unit: every unit owned before it is
\* stored after it with the same owner, size, access code and timestamp.
OwnedUnitsSurviveResync ==
    [][\A c \in CollectionIds :
          Resync(c) => Owned(ItemUnits(units, "i1")) \subseteq units']_vars

\* C2 witness: the item sits in c2 (template M only) and keeps an owned L unit
\* and more owned M units than the template asks for, and no unowned L unit
OwnedUnitsBeyondTemplate ==
    /\ [id |-> "i1", collection |-> "c2"] \in items
    /\ Owned(UnitsOf(units, "i1", "L")) # {}
    /\ Unowned(UnitsOf(units, "i1", "L")) = {}
    /\ "M" \in TemplateSizes(templates, "c2")
    /\ Cardinality(Owned(UnitsOf(units, "i1", "M"))) > TemplateQty(templates, "c2", "M")

\* the shrink case of C4: n units of size M, k of them owned, template
\* quantity T with 0 < k < T < n  (n = 80, k = 5, T = 70 in the spec)
ShrinkCase(c) ==
    LET n == Cardinality(UnitsOf(units, "i1", "M"))
        k == Cardinality(Owned(UnitsOf(units, "i1", "M")))
    IN  /\ "M" \in TemplateSizes(templates, c)
        /\ 0 < k
        /\ k < TemplateQty(templates, c, "M")
        /\ TemplateQty(templates, c, "M") < n

\* C4 as stated: after the resync of the shrink case only the owned units of
\* size M are left, and the row reads quantity_initial = k, quantity_remaining = 0.
ShrinkLeavesOnlyOwned ==
    [][\A c \in CollectionIds :
          (ShrinkCase(c) /\ Resync(c)) =>
              LET k == Cardinality(Owned(UnitsOf(units, "i1", "M")))
              IN  /\ UnitsOf(units', "i1", "M") = Owned(UnitsOf(units, "i1", "M"))
                  /\ HasRow(inv', "i1", "M", k, 0)]_vars

\* C4 amended: after the resync of the shrink case the item has exactly T units
\* of size M, the k owned ones among them, and the row reads
\* quantity_initial = T, quantity_remaining = T - k.
ShrinkStopsAtTemplate ==
    [][\A c \in CollectionIds :
          (ShrinkCase(c) /\ Resync(c)) =>
              LET k == Cardinality(Owned(UnitsOf(units, "i1", "M")))
                  T == TemplateQty(templates, c, "M")
              IN  /\ Cardinality(UnitsOf(units', "i1", "M")) = T
                  /\ Owned(UnitsOf(units', "i1", "M")) = Owned(UnitsOf(units, "i1", "M"))
                  /\ HasRow(inv', "i1", "M", T, T - k)]_vars

\* C4 witness: the item has as many M units as the template asks for, some but
\* not all owned, and the unit with the highest key has been deleted
ShrunkToTemplate ==
    /\ [id |-> "i1", collection |-> "c1"] \in items
    /\ "M" \in TemplateSizes(templates, "c1")
    /\ Cardinality(UnitsOf(units, "i1", "M")) = TemplateQty(templates, "c1", "M")
    /\ Owned(UnitsOf(units, "i1", "M")) # {}
    /\ Unowned(UnitsOf(units, "i1", "M")) # {}
    /\ nextId = MaxUnits + 1
    /\ ~Stored(units, MaxUnits)
    /\ HasRow(inv, "i1", "M", TemplateQty(templates, "c1", "M"),
              Cardinality(Unowned(UnitsOf(units, "i1", "M"))))

\* C5: in every reachable state, those reached by interleaved concurrent unit
\* saves and deletes included, every Size Inventory row satisfies
\* 0 <= quantity_remaining <= quantity_initial.
RemainingWithinInitial ==
    \A r \in inv : 0 <= r.quantity_remaining /\ r.quantity_remaining <= r.quantity_initial

\* C6: after every completed item save, unit save or unit delete a Size
\* Inventory row of (item, size) exists iff the item has a unit of the size.
RowExistsIffUnits ==
    \A i \in ItemIds, s \in Sizes :
        (RowsOf(inv, i, s) # {}) <=> (UnitsOf(units, i, s) # {})

\* C6 witness: the template gives M the quantity 0 and M has no row, while L,
\* no longer in the template, keeps its row for an owned unit
RowsFollowUnitsNotTemplate ==
    /\ [id |-> "i1", collection |-> "c1"] \in items
    /\ [collection |-> "c1", size |-> "M", quantity |-> 0] \in templates
    /\ RowsOf(inv, "i1", "M") = {}
    /\ "L" \notin TemplateSizes(templates, "c1")
    /\ Owned(UnitsOf(units, "i1", "L")) # {}
    /\ RowsOf(inv, "i1", "L") # {}

\* an item whose unowned sizes hold the template quantity
InSyncWithTemplate(I, T, U, i) ==
    \A s \in TemplateSizes(T, CollectionOf(I, i)) :
        Owned(UnitsOf(U, i, s)) = {} =>
            Cardinality(UnitsOf(U, i, s)) = TemplateQty(T, CollectionOf(I, i), s)

\* C7 as stated: after a create, update or delete of a Size Template row every
\* stored item of the collection holds, for each template size without owned
\* units, the new template quantity.
TemplateEditResyncsItems ==
    [][\A c \in CollectionIds :
          ((\E s \in Sizes, q \in 0..MaxQty : TemplateSave(c, s, q))
              \/ (\E s \in Sizes : TemplateDelete(c, s)))
          => \A r \in items' :
                r.collection = c => InSyncWithTemplate(items', templates', units', r.id)]_vars

\* C8: a save that gives an unowned unit an owner (and leaves its size) stamps
\* the unit, lowers the row's quantity_remaining by exactly 1 and leaves its
\* quantity_initial.
AssignLowersRemainingByOne ==
    [][\A pk \in 1..MaxUnits, o \in UserIds :
          (/\ Stored(units, pk)
           /\ Unit(units, pk).owner = NoOwner
           /\ UnitSave(pk, Unit(units, pk).size, o, "t1"))
          => LET u == Unit(units, pk)
             IN  /\ Unit(units', pk).owner = o
                 /\ Unit(units', pk).assigned_at # NoTime
                 /\ \E r \in RowsOf(inv, u.item, u.size) :
                       HasRow(inv', u.item, u.size, r.quantity_initial,
                              r.quantity_remaining - 1)]_vars

\* C8 witness: an owned, stamped unit whose size has fewer remaining than initial
AssignedUnitCounted ==
    \E u \in units :
        /\ u.owner # NoOwner
        /\ u.assigned_at # NoTime
        /\ \E r \in RowsOf(inv, u.item, u.size) :
              r.quantity_remaining = r.quantity_initial - 1

\* C9: from every state, assigning an owner to an unowned unit and then
\* clearing the owner leaves the unit without owner and without timestamp, and
\* the (item, size) row with the quantities it had before the assignment.
AssignThenClearRestores ==
    \A u \in Unowned(units), o \in users, t \in Times :
        LET assigned == UnitSaveExisting(Db, u.id, u.size, o, t)
            cleared == UnitSaveExisting(assigned, u.id, u.size, NoOwner, t)
        IN  /\ Unit(assigned.units, u.id).owner = o
            /\ Unit(cleared.units, u.id).owner = NoOwner
            /\ Unit(cleared.units, u.id).assigned_at = NoTime
            /\ RowsOf(cleared.inv, u.item, u.size) = RowsOf(inv, u.item, u.size)
            /\ RowsOf(assigned.inv, u.item, u.size) # RowsOf(inv, u.item, u.size)

\* C9 witness: an unowned, unstamped unit with a key below that of a stamped
\* owned unit of the same size: it can be assigned and cleared
ClearedUnitBesideOwned ==
    \E u \in units, v \in units :
        /\ u.owner = NoOwner /\ u.assigned_at = NoTime
        /\ v.owner # NoOwner /\ v.size = u.size /\ v.id > u.id
        /\ \E r \in RowsOf(inv, u.item, u.size) : r.quantity_remaining = 1

RECURSIVE SumQuantities(_)
\* the sum of the quantities of a set of template rows
SumQuantities(rows) ==
    IF rows = {} THEN 0
    ELSE LET r == CHOOSE x \in rows : TRUE
         IN  r.quantity + SumQuantities(rows \ {r})

\* what C3 says of the units after the creation of item i in collection c
CreatedUnits(T, U, i, c) ==
    /\ \A s \in Sizes :
          Cardinality(UnitsOf(U, i, s)) =
              IF s \in TemplateSizes(T, c) THEN TemplateQty(T, c, s) ELSE 0
    /\ \A u \in ItemUnits(U, i) : u.owner = NoOwner /\ u.assigned_at = NoTime
    /\ \A u \in U, v \in U : u.code = v.code => u = v
    /\ TotalUnits(U, i) = SumQuantities({t \in T : t.collection = c})
    /\ RemainingUnits(U, i) = SumQuantities({t \in T : t.collection = c})

\* an item save step of i1 in c1 under the draw seed, ended or not by a
\* rejected insert
ItemSaveAnyEnd(seed) == ItemSave("i1", "c1", seed) \/ ItemSaveAborted("i1", "c1", seed)

\* the creation of item i1 in c1 under the draw seed: the save of an item
\* that is not stored
Creation(seed) == ~ItemExists(items, "i1") /\ ItemSaveAnyEnd(seed)

\* C3: creating an item yields q_s unowned, unstamped units of every template
\* size s and of no other size, with pairwise distinct codes and
\* total_units = remaining_units = sum of q_s, and a Size Inventory row with
\* quantity_initial = quantity_remaining = q_s for every template size that
\* has units to count (q_s > 0).
CreationYieldsTemplateUnits ==
    [][\A seed \in CodeSeeds :
          Creation(seed) =>
              /\ CreatedUnits(templates, units', "i1", "c1")
              /\ \A s \in TemplateSizes(templates, "c1") :
                    TemplateQty(templates, "c1", s) > 0 =>
                        HasRow(inv', "i1", s, TemplateQty(templates, "c1", s),
                               TemplateQty(templates, "c1", s))]_vars

\* C10: no two stored units share an access code, and the lookup of a stored
\* unit's code answers with that unit's id, code and item, whether or not the
\* unit has an owner.
CodesResolveToTheirUnit ==
    /\ \A u \in units, v \in units : u.code = v.code => u.id = v.id
    /\ \A u \in units :
          Lookup(units, u.code) =
              [status |-> 200, id |-> u.id, access_code |-> u.code, item |-> u.item]

\* C11: an access code that a unit ever held is never given to a different
\* unit created later, even after the first unit was deleted.
CodesNeverReused ==
    \A a \in issued, b \in issued : a[1] = b[1] => a[2] = b[2]

\* the item save steps of the sequential specification, for collection c
ItemSaveStep(c) ==
    \/ \E seed \in SeedsAnswers : ItemSave("i1", c, seed)
    \/ ItemSaveRejected("i1", c)

\* C12: saving an item whose collection has no Size Template fails with a
\* validation error and leaves the item rows, the units and the Size Inventory
\* rows as they were.
RejectedItemSaveWritesNothing ==
    [][\A c \in CollectionIds :
          (c \in collections /\ TemplateSizes(templates, c) = {} /\ ItemSaveStep(c)) =>
              /\ resp'.op = "item_save"
              /\ resp'.error = "ValidationError"
              /\ UNCHANGED <<collections, templates, items, users, units, inv, nextId>>]_vars

\* C12 witness: the save of a stored item with units was rejected, after the
\* templates of the collection it names were removed
StoredItemSaveRejected ==
    /\ resp.op = "item_save"
    /\ resp.error = "ValidationError"
    /\ TemplateSizes(templates, resp.collection) = {}
    /\ ItemExists(items, resp.item)
    /\ ItemUnits(units, resp.item) # {}
    /\ inv # {}

\* C16: the lookup of an access code that no stored unit holds answers
\* not found and changes no state.
UnknownCodeNotFound ==
    [][\A code \in Codes :
          (LookupRequest(code) /\ ~\E u \in units : u.code = code) =>
              /\ resp'.result = [status |-> 404]
              /\ UNCHANGED <<collections, templates, items, users, units, inv, nextId>>]_vars

\* C16 witness: not found was the answer for a code whose unit was deleted,
\* while other units are stored
DeletedCodeNotFound ==
    /\ resp.op = "lookup"
    /\ resp.result.status = 404
    /\ \E a \in issued : a[1] = resp.code
    /\ units # {}

\* the item save run on the tables U, V, T with next primary key n
SavedAgain(U, V, T, n, c) ==
    ItemSaveDb([units |-> U, inv |-> V, nextId |-> n, drawn |-> 0, ok |-> TRUE],
               T, "i1", c, <<n - 1, 1>>)

\* C13: an item save run a second time with nothing stored in between ends
\* with the same units (ids, sizes, owners, codes) and the same Size Inventory
\* rows and numbers as the first run, also when owned units exceed the
\* template or have a size the template lacks.
ResyncTwiceSameState ==
    [][\A c \in CollectionIds :
          (resp' = Saved("i1", c) /\ Resync(c)) =>
              LET again == SavedAgain(units', inv', templates', nextId', c)
              IN  /\ again.ok
                  /\ again.units = units'
                  /\ again.inv = inv'
                  /\ again.nextId = nextId']_vars

\* C13 witness: an item save has ended with two owned units of M against a
\* template quantity of 1, and an owned unit of L, a size the template lacks
SavedWithOwnedExcess ==
    /\ resp = Saved("i1", "c1")
    /\ templates = {[collection |-> "c1", size |-> "M", quantity |-> 1]}
    /\ Cardinality(Owned(UnitsOf(units, "i1", "M"))) = 2
    /\ Cardinality(Owned(UnitsOf(units, "i1", "L"))) = 1
    /\ HasRow(inv, "i1", "M", 2, 0)
    /\ HasRow(inv, "i1", "L", 1, 0)

\* C14: an item save run a second time with nothing stored in between writes
\* no Size Inventory row and no unit: the table is the same after the sync
\* pass (whose every write changes a row) and after the reconciliation.
ResyncTwiceWritesNothing ==
    [][\A c \in CollectionIds :
          Resync(c) =>
              LET again == SavedAgain(units', inv', templates', nextId', c)
              IN  /\ SyncInventoryFromCollection(inv', templates', "i1", c) = inv'
                  /\ again.units = units'
                  /\ again.inv = inv']_vars

\* the unit rows of the items of collection c
CollectionUnitRows(c) ==
    {u \in units : \E r \in items : r.id = u.item /\ r.collection = c}

\* C15: for every collection, total_units is the sum of total_units over its
\* items and the number of unit rows of those items, and remaining_units is
\* the sum of remaining_units over its items and the number of those units
\* whose owner is null.
CollectionTotalsCountRows ==
    \A c \in CollectionIds :
        /\ CollectionTotalUnits(items, units, c) = Cardinality(CollectionUnitRows(c))
        /\ CollectionRemainingUnits(items, units, c) =
               Cardinality(Unowned(CollectionUnitRows(c)))

\* C15 witness: collection c1 holds both items, each with a unit, one of the
\* two units owned
TwoItemsOneOwnedUnit ==
    /\ CollectionItems(items, "c1") = ItemIds
    /\ \A i \in ItemIds : ItemUnits(units, i) # {}
    /\ CollectionTotalUnits(items, units, "c1") = 2
    /\ CollectionRemainingUnits(items, units, "c1") = 1

\* C17: when the user that owns a unit is removed, the unit is not deleted:
\* it is stored afterwards with owner null and the item, size and access code
\* it had.
UserRemovalKeepsUnits ==
    [][\A user \in UserIds :
          UserDelete(user) =>
              \A u \in units :
                  u.owner = user =>
                      \E v \in units' :
                          /\ v.id = u.id
                          /\ v.owner = NoOwner
                          /\ v.item = u.item
                          /\ v.size = u.size
                          /\ v.code = u.code]_vars

\* C17 witness: ua was removed while owning a unit; the unit is stored without
\* owner, with the stamp of its assignment still on it
UnitOutlivesOwner ==
    /\ "ua" \notin users
    /\ \E u \in units : u.owner = NoOwner /\ u.assigned_at # NoTime

\* C20: an update of a unit owned by user A, sent by another authenticated
\* user B without an owner in the payload, leaves the owner of the unit equal
\* to A.
OwnerNotSilentlyReplaced ==
    [][\A pk \in 1..MaxUnits, user \in UserIds :
          (/\ Stored(units, pk)
           /\ Unit(units, pk).owner \notin {NoOwner, user}
           /\ UnitPatch(pk, user, Absent, Unit(units, pk).size, "t1")) =>
              Unit(units', pk).owner = Unit(units, pk).owner]_vars

\* C18: when two operations on the inventory of the same (item, size) have
\* run concurrently and both have completed, the Size Inventory row equals the
\* unit counts, for every interleaving of their statements.
NoLostInventoryUpdate ==
    (\A p \in Procs : procs[p].pc = "done") => InventoryEqualsUnitCounts

\* two completed updates of the same unit by different authenticated users,
\* each of which found the unit without owner and made its user the owner
BothClaimed(p, q) ==
    /\ procs[p].pc = "done" /\ procs[q].pc = "done"
    /\ procs[p].user \in UserIds /\ procs[q].user \in UserIds
    /\ procs[p].user # procs[q].user
    /\ procs[p].inst.id = procs[q].inst.id
    /\ procs[p].previous_owner = NoOwner /\ procs[q].previous_owner = NoOwner
    /\ procs[p].inst.owner = procs[p].user /\ procs[q].inst.owner = procs[q].user

\* C19: two different authenticated users that concurrently claim the same
\* unowned unit through the update endpoint cannot both succeed.
ClaimsCannotBothSucceed ==
    \A p \in Procs, q \in Procs : ~BothClaimed(p, q)

\* C21: when the unit reconciliation of an item fails partway, on a rejected
\* unit insert, every Size Inventory row of the item still equals the unit
\* counts of its size and no row exists for a size without units.
AbortedSaveLeavesRowsTrue ==
    resp \in {Aborted(i, c) : i \in ItemIds, c \in CollectionIds} =>
        \A s \in Sizes :
            IF UnitsOf(units, resp.item, s) = {}
            THEN RowsOf(inv, resp.item, s) = {}
            ELSE HasRow(inv, resp.item, s, Cardinality(UnitsOf(units, resp.item, s)),
                        Cardinality(Unowned(UnitsOf(units, resp.item, s))))

\* C22: when the code drawn for a new unit is the code of a stored unit, the
\* creation draws again and retries, so that the reconciliation still creates
\* every missing unit: after an item save each template size holds at least
\* its quantity of units.
CollisionIsRetried ==
    [][\A seed \in CodeSeeds :
          ItemSaveAnyEnd(seed) =>
              \A s \in TemplateSizes(templates, "c1") :
                  Cardinality(UnitsOf(units', "i1", s)) >= TemplateQty(templates, "c1", s)]_vars

\* a claim step of process p that creates the user u with the token t
ClaimOf(p, t, u) ==
    /\ procs[p].pc = "create_user" /\ procs'[p].pc = "claimed"
    /\ procs[p].token = t.token /\ procs[p].user = u
    /\ u \notin users /\ users' = users \cup {u}
    /\ regTokens' = (regTokens \ {t}) \cup {MarkClaimed(t, u, clock)}

RecoveryTokenResetsOnce ==
    \A p \in Procs, q \in Procs :
        (p # q /\ procs[p].pc \in {"mark_used", "confirmed"}
               /\ procs[q].pc \in {"mark_used", "confirmed"}) =>
            procs[p].token # procs[q].token

\* the row of (i1, s) holds the counts of the units U of the size, and is
\* absent when there is none
RowCounts(U, V, s) ==
    IF UnitsOf(U, "i1", s) = {}
    THEN RowsOf(V, "i1", s) = {}
    ELSE HasRow(V, "i1", s, Cardinality(UnitsOf(U, "i1", s)),
                Cardinality(Unowned(UnitsOf(U, "i1", s))))

\* C26: after an item resync every template size s with quantity q holds
\* max(q, owned units of s) units: q exactly when the owned units do not
\* exceed q; when fewer than q exist every unit stays and the missing ones
\* are created; when more exist only unowned units are removed.
ResyncReachesTemplateOrOwned ==
    [][\A c \in CollectionIds :
          Resync(c) =>
              \A s \in TemplateSizes(templates, c) :
                  LET q == TemplateQty(templates, c, s)
                      before == UnitsOf(units, "i1", s)
                      after == UnitsOf(units', "i1", s)
                      owned == Cardinality(Owned(before))
                  IN  /\ Cardinality(after) = IF owned > q THEN owned ELSE q
                      /\ Cardinality(before) <= q => before \subseteq after
                      /\ Cardinality(before) >= q => after \subseteq before
                      /\ Owned(after) = Owned(before)]_vars

\* C26 witness: a completed save left M with its two owned units, above the
\* template quantity 1, and created the unit of L that the template asks for
OwnedAboveTemplateBesideCreated ==
    /\ resp = Saved("i1", "c1")
    /\ TemplateSizes(templates, "c1") = {"L", "M"}
    /\ TemplateQty(templates, "c1", "M") = 1
    /\ Cardinality(Owned(UnitsOf(units, "i1", "M"))) = 2
    /\ Unowned(UnitsOf(units, "i1", "M")) = {}
    /\ Cardinality(Unowned(UnitsOf(units, "i1", "L"))) = TemplateQty(templates, "c1", "L")
    /\ \A u \in UnitsOf(units, "i1", "L") : \A v \in UnitsOf(units, "i1", "M") : u.id > v.id

\* C27: a resync that must remove k = min(existing - target, unowned count)
\* units of a template size removes exactly k units, all unowned, and every
\* removed unit has a higher id than every unowned unit of the size that stays.
ResyncRemovesNewestUnowned ==
    [][\A c \in CollectionIds :
          Resync(c) =>
              \A s \in TemplateSizes(templates, c) :
                  LET before == UnitsOf(units, "i1", s)
                      removed == before \ units'
                      excess == Cardinality(before) - TemplateQty(templates, c, s)
                  IN  excess > 0 =>
                         /\ Cardinality(removed) =
                                Min(excess, Cardinality(Unowned(before)))
                         /\ removed \subseteq Unowned(before)
                         /\ \A d \in removed :
                                \A v \in Unowned(before) \ removed : d.id > v.id]_vars

\* C27 witness: a completed save left the oldest unowned unit of M, of three
\* created, for the template quantity 1
OldestUnownedKept ==
    /\ resp = Saved("i1", "c1")
    /\ TemplateSizes(templates, "c1") = {"M"}
    /\ TemplateQty(templates, "c1", "M") = 1
    /\ units = {[id |-> 1, item |-> "i1", size |-> "M", owner |-> NoOwner,
                 assigned_at |-> NoTime, code |-> 1]}
    /\ nextId = 4

\* C28: after an item resync every unit of a size absent from the
\* collection's templates is owned: the unowned units of the size are
\* deleted, the owned ones are kept as they were, and the row of the size is
\* absent when no unit is left and reads (owned units, 0) otherwise.
ResyncLeavesOnlyOwnedOfDroppedSize ==
    [][\A c \in CollectionIds :
          Resync(c) =>
              \A s \in Sizes \ TemplateSizes(templates, c) :
                  LET kept == Owned(UnitsOf(units, "i1", s))
                  IN  /\ UnitsOf(units', "i1", s) = kept
                      /\ IF kept = {} THEN RowsOf(inv', "i1", s) = {}
                         ELSE HasRow(inv', "i1", s, Cardinality(kept), 0)]_vars

\* C28 witness: a completed save into c2, whose template has no L, left the
\* owned unit of L with the row (1, 0); a later unit of L is gone
OwnedUnitOfDroppedSize ==
    /\ resp = Saved("i1", "c2")
    /\ "L" \notin TemplateSizes(templates, "c2")
    /\ Cardinality(UnitsOf(units, "i1", "L")) = 1
    /\ \A u \in UnitsOf(units, "i1", "L") :
           u.owner = "ua" /\ u.id < nextId - 1 /\ ~Stored(units, u.id + 1)
    /\ HasRow(inv, "i1", "L", 1, 0)

\* C29: when an item save completes, every Size Inventory row of the item
\* holds the unit counts of its size, whatever the template quantity:
\* quantity_initial is the number of units of the size, quantity_remaining
\* the number of unowned ones.
SavedRowsHoldUnitCounts ==
    [][\A c \in CollectionIds :
          Resync(c) =>
              \A r \in inv' :
                  r.item = "i1" =>
                      /\ r.quantity_initial = Cardinality(UnitsOf(units', "i1", r.size))
                      /\ r.quantity_remaining =
                             Cardinality(Unowned(UnitsOf(units', "i1", r.size)))]_vars

\* C29 witness: a completed save left the row of M at (2, 0), the two owned
\* units, under the template quantity 1
RowAboveTemplateQuantity ==
    /\ resp = Saved("i1", "c1")
    /\ TemplateSizes(templates, "c1") = {"M"}
    /\ TemplateQty(templates, "c1", "M") = 1
    /\ HasRow(inv, "i1", "M", 2, 0)
    /\ RowsOf(inv, "i1", "L") = {}

\* C30: a save that moves a stored unit from size s1 to size s2 recomputes
\* both rows: the row of s1 holds the counts of the units left in s1 and is
\* removed when none is left, the row of s2 holds the counts of the units now
\* in s2, the moved one among them and counted as remaining iff unowned.
SizeChangeRefreshesBothRows ==
    [][\A pk \in 1..MaxUnits, s2 \in Sizes, o \in {"ua", NoOwner} :
          (Stored(units, pk) /\ Unit(units, pk).size # s2
             /\ (\E u \in units' \ units : u.id = pk /\ u.size = s2 /\ u.owner = o)
             /\ UnitSave(pk, s2, o, "t1")) =>
              LET s1 == Unit(units, pk).size
              IN  /\ Cardinality(UnitsOf(units', "i1", s2)) =
                         Cardinality(UnitsOf(units, "i1", s2)) + 1
                  /\ Cardinality(UnitsOf(units', "i1", s1)) =
                         Cardinality(UnitsOf(units, "i1", s1)) - 1
                  /\ RowCounts(units', inv', s1)
                  /\ RowCounts(units', inv', s2)]_vars

\* C30 witness: the item, saved from a template of M only, has its unit 1 in
\* L, owned, beside an unowned unit of L, and no unit and no row of M
MovedUnitCountedInNewSize ==
    /\ TemplateSizes(templates, "c1") = {"M"}
    /\ [id |-> "i1", collection |-> "c1"] \in items
    /\ \E u \in units : u.id = 1 /\ u.size = "L" /\ u.owner = "ua"
    /\ HasRow(inv, "i1", "L", 2, 1)
    /\ RowsOf(inv, "i1", "M") = {}

\* C31: in every reachable state a unit has an assignment timestamp iff it
\* has an owner: after its creation, an owner assignment, an owner
\* un-assignment and after the removal of the owning user.
TimestampIffOwner ==
    \A u \in units : (u.assigned_at # NoTime) <=> (u.owner # NoOwner)

\* C32: a save that gives a unit owned by A the different owner B stores B,
\* keeps the assignment timestamp the unit had, and leaves the row of the
\* size as it was.
ReassignKeepsTimestamp ==
    [][\A pk \in 1..MaxUnits, o \in UserIds, now \in Times :
          (Stored(units, pk) /\ Unit(units, pk).owner \notin {NoOwner, o}
             /\ (\E u \in units' \ units : u.id = pk /\ u.owner = o)
             /\ UnitSave(pk, Unit(units, pk).size, o, now)) =>
              /\ Unit(units', pk).owner = o
              /\ Unit(units', pk).assigned_at = Unit(units, pk).assigned_at
              /\ inv' = inv]_vars

\* C33: at every point of a write path that a concurrent reader can observe,
\* each stored Size Inventory row equals the unit counts of its size (no row
\* reads the template quantity while the item has no unit of the size).
RowsNeverStale ==
    \A r \in inv :
        /\ r.quantity_initial = Cardinality(UnitsOf(units, r.item, r.size))
        /\ r.quantity_remaining = Cardinality(Unowned(UnitsOf(units, r.item, r.size)))

\* C34: the access code of a unit never changes while the unit is stored:
\* an owner assignment, an owner un-assignment, a size change, a re-save and
\* an item resync that keeps the unit leave its code as it was.
AccessCodeNeverChanges ==
    [][\A u \in units : \A v \in units' : v.id = u.id => v.code = u.code]_vars

\* C34 witness: a completed resync kept unit 1, which has been given an owner
\* and moved from the template size to L, with the code it was created with
CodeKeptThroughSaves ==
    /\ resp = Saved("i1", "c1")
    /\ TemplateSizes(templates, "c1") = {"M"}
    /\ [id |-> 1, item |-> "i1", size |-> "L", owner |-> "ua", assigned_at |-> "t1",
         code |-> 1] \in units
    /\ Cardinality(UnitsOf(units, "i1", "M")) = 1

\* a read of the specification: a lookup by code, the totals of the item,
\* the totals of the collection
ReadStep ==
    \/ \E code \in Codes : LookupRequest(code)
    \/ ItemTotalsRequest("i1")
    \/ CollectionTotalsRequest("c1")

\* C35: reading total_units or remaining_units of an item or a collection,
\* and resolving a unit by its access code, changes no unit, Size Inventory
\* row, template, item or collection.
ReadsChangeNothing ==
    [][ReadStep => UNCHANGED <<units, inv, templates, items, collections>>]_vars

\* C35 witness: the totals of the collection were answered as 2 and 2 and the
\* two units and their rows are stored
TotalsAnsweredUnitsStored ==
    /\ resp = [op |-> "collection_totals", collection |-> "c1",
               total_units |-> 2, remaining_units |-> 2]
    /\ Cardinality(units) = 2
    /\ inv # {}

\* C36: after the removal of a user who owns units, the Size Inventory row
\* of every (item, size) of those units has quantity_remaining equal to the
\* number of units of the size that have no owner.
UserRemovalRefreshesRows ==
    [][\A user \in UserIds :
          UserDelete(user) =>
              \A u \in units :
                  u.owner = user =>
                      \A r \in RowsOf(inv', u.item, u.size) :
                          r.quantity_remaining =
                              Cardinality(Unowned(UnitsOf(units', u.item, u.size)))]_vars

RECURSIVE SumInitial(_)
\* the sum of quantity_initial over a set of Size Inventory rows
SumInitial(rows) ==
    IF rows = {} THEN 0
    ELSE LET r == CHOOSE x \in rows : TRUE
         IN  r.quantity_initial + SumInitial(rows \ {r})

RECURSIVE SumRemaining(_)
\* the sum of quantity_remaining over a set of Size Inventory rows
SumRemaining(rows) ==
    IF rows = {} THEN 0
    ELSE LET r == CHOOSE x \in rows : TRUE
         IN  r.quantity_remaining + SumRemaining(rows \ {r})

\* C37: after every completed item save, unit save or unit delete, for every
\* item the sum of quantity_initial over its Size Inventory rows is
\* total_units(item) and the sum of quantity_remaining is
\* remaining_units(item).
RowSumsEqualTotals ==
    \A i \in ItemIds :
        /\ SumInitial({r \in inv : r.item = i}) = TotalUnits(units, i)
        /\ SumRemaining({r \in inv : r.item = i}) = RemainingUnits(units, i)

\* C37 witness: the item has three units over both sizes, one of them owned
ThreeUnitsTwoSizesOneOwned ==
    /\ TotalUnits(units, "i1") = 3
    /\ RemainingUnits(units, "i1") = 2
    /\ UnitsOf(units, "i1", "L") # {}
    /\ UnitsOf(units, "i1", "M") # {}
    /\ Cardinality({r \in inv : r.item = "i1"}) = 2

\* the rows of V other than those of item i and the sizes S
OtherRows(V, i, S) == {r \in V : ~(r.item = i /\ r.size \in S)}

\* C38: a save or a delete of a unit of item i and size s (create, owner
\* assignment, owner un-assignment, delete) changes no other unit and no Size
\* Inventory row other than (i, s); a save that moves the unit from size s'
\* to s changes no row other than (i, s') and (i, s).
UnitWritesTouchOwnRowsOnly ==
    [][/\ \A pk \in 1..MaxUnits, s \in Sizes, o \in {"ua", NoOwner} :
             (Stored(units, pk)
                /\ (\E u \in units' : u.id = pk /\ u.size = s /\ u.owner = o)
                /\ UnitSave(pk, s, o, "t1")) =>
                 LET u == Unit(units, pk)
                 IN  /\ units' \ {Unit(units', pk)} = units \ {u}
                     /\ OtherRows(inv', u.item, {s, u.size}) =
                            OtherRows(inv, u.item, {s, u.size})
       /\ \A pk \in 1..MaxUnits :
             (Stored(units, pk) /\ ~Stored(units', pk) /\ UnitDelete(pk)) =>
                 LET u == Unit(units, pk)
                 IN  /\ units' = units \ {u}
                     /\ OtherRows(inv', u.item, {u.size}) = OtherRows(inv, u.item, {u.size})
       /\ \A s \in Sizes, o \in {"ua", NoOwner} :
             (nextId' = nextId + 1 /\ UnitCreate("i1", s, o, FreshSeed, "t1")) =>
                 /\ units \subseteq units'
                 /\ \A u \in units' \ units : u.id = nextId /\ u.size = s
                 /\ OtherRows(inv', "i1", {s}) = OtherRows(inv, "i1", {s})]_vars

\* C38 witness: unit 2 has been deleted; unit 1, owned, and unit 3 are of
\* different sizes and each has its row
UnitsBesideDeletedOne ==
    /\ resp = NoResp
    /\ nextId = 4
    /\ ~Stored(units, 2)
    /\ Stored(units, 1) /\ Stored(units, 3)
    /\ Unit(units, 1).size # Unit(units, 3).size
    /\ Unit(units, 1).owner = "ua"
    /\ HasRow(inv, "i1", Unit(units, 1).size, 1, 0)
    /\ HasRow(inv, "i1", Unit(units, 3).size, 1, 1)

\* C39: in every reachable state each unit and each Size Inventory row
\* belongs to a stored item, and each item and each Size Template to a stored
\* collection: the deletion of an item takes its units and rows along, the
\* deletion of a collection its templates and items and, through the items,
\* their units and rows.
ReferentialIntegrity ==
    /\ \A u \in units : ItemExists(items, u.item)
    /\ \A r \in inv : ItemExists(items, r.item)
    /\ \A r \in items : r.collection \in collections
    /\ \A x \in templates : x.collection \in collections

\* C39 witness: a collection has been deleted with its item and the unit the
\* item had; the item of the other collection keeps its unit and row
CollectionGoneOtherItemKept ==
    /\ "c1" \notin collections
    /\ items = {[id |-> "i2", collection |-> "c2"]}
    /\ nextId = 3
    /\ units = {[id |-> 2, item |-> "i2", size |-> "L", owner |-> NoOwner,
                 assigned_at |-> NoTime, code |-> 2]}
    /\ HasRow(inv, "i2", "L", 1, 1)
    /\ <<1, 1>> \in issued

====
